---- MODULE Spec2Model ----
(***************************************************************************)
(* Model of the data pipeline of maplibre-gl-geophoto:                     *)
(*   - the geometry utilities swapLatLon and calculateBounds,              *)
(*   - the trajectory parser parseTrajectory,                              *)
(*   - the converter camerasToGeoJSON,                                     *)
(*   - the loaders readFromDirectory, readFromZip and readFromUrls with    *)
(*     their image resolvers and cleanup, and the fetch of _loadZipFromUrl,*)
(*   - the control GeoPhotoControl: loading, navigation, autoplay,         *)
(*     clearData, the panel modes and the map's sources and layers.        *)
(*                                                                         *)
(* Numbers are integers (fixed point); latitude/longitude are thousandths  *)
(* of a degree.  JSON values are records whose flags say which shape the   *)
(* value has (null, missing attribute, list, non-list).                    *)
(* Indices of the program are 0-based, sequences here are 1-based.         *)
(* A path is the sequence of its '/'-separated segments; an object URL is  *)
(* the number of the createObjectURL call that issued it.                  *)
(***************************************************************************)
EXTENDS Integers, Sequences, FiniteSets, TLC

VARIABLES
    fn,             \* the function under call
    pc,             \* "call": not yet called, "return": returned, "throw": raised TypeError
    geojsonData,    \* parseTrajectory: first argument
    jsonData,       \* parseTrajectory: second argument
    parsed,         \* parseTrajectory: the returned ParsedTrajectory
    coords,         \* swapLatLon: argument
    swapped,        \* swapLatLon: returned pair
    positions,      \* calculateBounds: argument
    bounds,         \* calculateBounds: returned box
    cameras,        \* camerasToGeoJSON: first argument
    selectedIndex,  \* camerasToGeoJSON: second argument (0-based, -1 for none)
    collection,     \* camerasToGeoJSON: returned FeatureCollection
    files,          \* the entries of the archive / of the picked tree, in order
    dirRoot,        \* readFromDirectory: the folder behind dirHandle
    dirLoad,        \* readFromDirectory: state and outcome of the call
    zipLoad,        \* readFromZip: state and outcome of the call
    imageHandles,   \* readFromDirectory: keys of the imageHandles map
    blobUrls,       \* readFromDirectory: the blobUrls set
    imageBlobUrls,  \* readFromZip: the imageBlobUrls map, filename -> URL
    objectUrls,     \* URL.createObjectURL: per URL issued, the number of revokeObjectURL calls
    resolves,       \* calls of the live imageResolver
    cleanups,       \* number of calls of imageResolver.cleanup
    requests,       \* per resource: the URL given, the server's answer, the state of the fetch
    urlLoad,        \* readFromUrls: state and outcome of the call
    imageBasePath,  \* readFromUrls: fourth argument, "" when omitted
    _map,           \* GeoPhotoControl: whether the control is on a map
    _state,         \* GeoPhotoControl: the PluginState, its collapsed flag
    _cameras,       \* GeoPhotoControl: the loaded camera list
    _currentIndex,  \* GeoPhotoControl: 0-based index of the selected camera, -1 for none
    _imageResolver, \* GeoPhotoControl: the LoadedData whose resolver is installed, or none
    _isPlaying,     \* GeoPhotoControl: the autoplay flag
    _playTimer,     \* GeoPhotoControl: whether an interval handle is stored
    panel,          \* which of the three panel elements is displayed, "none" before onAdd
    _imageEl,       \* the camera whose image is the src of the viewer's <img>
    sources,        \* the map: per geophoto source id, the data it was added with
    layers,         \* the map: ids of the geophoto layers present
    intervals,      \* the browser: number of active setInterval timers of the control
    pending,        \* _updateViewer calls suspended at await this._imageResolver(...)
    unrevoked,           \* per LoadedData: whether its resolver holds unrevoked object URLs
    cleaned,        \* per LoadedData: number of calls of its resolver's cleanup
    emitted,        \* events passed to _emit by the last handler, in order
    console,        \* what the last handler wrote: "", "warn" or "error"
    loads,          \* per load: the loader its API calls and its position
    settled         \* the load whose picker or loader settled in the last step, and with what

vars == <<fn, pc, geojsonData, jsonData, parsed, coords, swapped, positions,
          bounds, cameras, selectedIndex, collection, files, dirRoot, dirLoad,
          zipLoad, imageHandles, blobUrls, imageBlobUrls, objectUrls, resolves,
          cleanups, requests, urlLoad, imageBasePath, _map, _state, _cameras,
          _currentIndex, _imageResolver, _isPlaying, _playTimer, panel, _imageEl,
          sources, layers, intervals, pending, unrevoked, cleaned, emitted,
          console, loads, settled>>

(* Bounds of the model *)

MaxCameras == 3     \* longest camera list
MaxTime == 3        \* capture times are 1..MaxTime
MaxCoord == 1       \* swapLatLon / calculateBounds take components in -MaxCoord..MaxCoord
MaxPositions == 3   \* longest position list given to calculateBounds
MaxLoads == 2       \* loads started on one control
MaxParsed == 2      \* longest camera list a loaded dataset parses to

SeqsUpTo(S, n) == UNION {[1..k -> S] : k \in 0..n}

(* Geometry utilities *)

\* Infinity of the program: only compared with < and >, never computed with;
\* any integer above every coordinate of the model orders the same way.
Infinity == 1000000000

\* the pair without the swap
swapLatLonKeepsOrder(c) == <<c[1], c[2]>>

swapLatLon(c) == <<c[2], c[1]>>

\* one iteration of the for-of loop of calculateBounds
BoundsStep(acc, p) ==
    LET lon == p[1]
        lat == p[2]
    IN [minLon |-> IF lon < acc.minLon THEN lon ELSE acc.minLon,
        minLat |-> IF lat < acc.minLat THEN lat ELSE acc.minLat,
        maxLon |-> IF lon > acc.maxLon THEN lon ELSE acc.maxLon,
        maxLat |-> IF lat > acc.maxLat THEN lat ELSE acc.maxLat]

RECURSIVE BoundsLoop(_, _)
BoundsLoop(acc, ps) ==
    IF ps = <<>> THEN acc ELSE BoundsLoop(BoundsStep(acc, Head(ps)), Tail(ps))

\* the bounds without the early return for an empty list
calculateBoundsNoEmptyCase(ps) ==
    LET acc == BoundsLoop([minLon |-> Infinity, minLat |-> Infinity,
                           maxLon |-> -Infinity, maxLat |-> -Infinity], ps)
    IN <<<<acc.minLon, acc.minLat>>, <<acc.maxLon, acc.maxLat>>>>

calculateBounds(ps) ==
    IF Len(ps) = 0
    THEN <<<<0, 0>>, <<0, 0>>>>
    ELSE LET acc == BoundsLoop([minLon |-> Infinity, minLat |-> Infinity,
                                maxLon |-> -Infinity, maxLat |-> -Infinity], ps)
         IN <<<<acc.minLon, acc.minLat>>, <<acc.maxLon, acc.maxLat>>>>

(* Inputs of parseTrajectory *)

Ids == {"img1", "img2", "img3"}

\* [lat, lon, elev] of the raw camera with a given id
RawCoordinates(id) ==
    CASE id = "img1" -> <<47671, -122274, 143>>
      [] id = "img2" -> <<47672, -122275, 125>>
      [] OTHER       -> <<-47670, 0, -100>>

RawRotation(id) ==
    CASE id = "img1" -> <<70, -10, 10, 67>>
      [] id = "img2" -> <<71, -14, 13, 68>>
      [] OTHER       -> <<72, -15, 12, 69>>

\* a raw camera record; hasCoordinates = FALSE is a camera object without
\* a coordinates attribute
RawCamera(id, ok) ==
    [id |-> id, hasCoordinates |-> ok,
     coordinates |-> IF ok THEN RawCoordinates(id) ELSE <<>>,
     rotation |-> RawRotation(id)]

WellFormedCameras == {RawCamera(id, TRUE) : id \in Ids}
RawCameras == WellFormedCameras \cup {RawCamera("img1", FALSE)}

\* An element of a top-level array.  isNull: the element is JSON null.
\* hasCameras: the element has a "cameras" attribute; camerasKind is the
\* shape of its value: "list", "null" (falsy) or "number" (truthy non-list).
Group(isNull, hasCameras, kind, cams) ==
    [isNull |-> isNull, hasCameras |-> hasCameras, camerasKind |-> kind,
     cameras |-> cams]

NullGroup == Group(TRUE, FALSE, "null", <<>>)
NoCamerasGroup == Group(FALSE, FALSE, "null", <<>>)
NullCamerasGroup == Group(FALSE, TRUE, "null", <<>>)
NumberCamerasGroup == Group(FALSE, TRUE, "number", <<>>)
ListGroup(cams) == Group(FALSE, TRUE, "list", cams)

Groups ==
    {NullGroup, NoCamerasGroup, NullCamerasGroup, NumberCamerasGroup}
    \cup {ListGroup(cams) : cams \in SeqsUpTo(RawCameras, MaxCameras)}

\* A top-level field of the geometry object: its key and its value, which
\* is an array of groups (isArray) or something else (a scalar).
Field(key, isArray, elems) == [key |-> key, isArray |-> isArray, elems |-> elems]

\* values a second field may take
SmallValues ==
    {[isArray |-> FALSE, elems |-> <<>>],
     [isArray |-> TRUE, elems |-> <<>>],
     [isArray |-> TRUE, elems |-> <<NullGroup>>],
     [isArray |-> TRUE, elems |-> <<NoCamerasGroup>>],
     [isArray |-> TRUE, elems |-> <<ListGroup(<<RawCamera("img3", TRUE)>>)>>],
     [isArray |-> TRUE,
      elems |-> <<ListGroup(<<RawCamera("img2", TRUE), RawCamera("img1", TRUE)>>),
                  ListGroup(<<RawCamera("img3", TRUE)>>)>>]}

\* The geometry argument: JSON null, or an object with its fields in
\* insertion order (the order of Object.values).
Geometry(isNull, fields) == [isNull |-> isNull, fields |-> fields]

Geometries ==
    {Geometry(TRUE, <<>>), Geometry(FALSE, <<>>)}
    \cup {Geometry(FALSE, <<Field(k, TRUE, <<g>>)>>) :
             k \in {"trajectories", "runs"}, g \in Groups}
    \cup {Geometry(FALSE, <<Field(k1, v1.isArray, v1.elems),
                            Field(k2, v2.isArray, v2.elems)>>) :
             <<k1, k2>> \in {<<"trajectories", "runs">>, <<"runs", "trajectories">>,
                             <<"runs", "tracks">>},
             v1 \in SmallValues, v2 \in SmallValues}

\* A shot of the metadata; hasCaptureTime = FALSE is a shot without a
\* capture_time attribute.
Shots ==
    {[hasCaptureTime |-> FALSE, capture_time |-> 0]}
    \cup {[hasCaptureTime |-> TRUE, capture_time |-> t] : t \in 1..MaxTime}

ShotMaps == UNION {[D -> Shots] : D \in SUBSET Ids}

\* A metadata group; hasShots = FALSE is a group without a shots attribute.
MetaGroup(hasShots, shots) == [hasShots |-> hasShots, shots |-> shots]

NoShots == [id \in {} |-> [hasCaptureTime |-> FALSE, capture_time |-> 0]]

\* a later metadata group, which gives every camera the same capture time
LaterGroup == MetaGroup(TRUE, [id \in Ids |-> [hasCaptureTime |-> TRUE, capture_time |-> 1]])

\* The metadata argument: null/undefined, or an array of groups.
Metadata(isNull, groups) == [isNull |-> isNull, groups |-> groups]

Metadatas ==
    {Metadata(TRUE, <<>>), Metadata(FALSE, <<>>),
     Metadata(FALSE, <<MetaGroup(FALSE, NoShots)>>)}
    \cup {Metadata(FALSE, <<MetaGroup(TRUE, s)>>) : s \in ShotMaps}
    \cup {Metadata(FALSE, <<MetaGroup(TRUE, s), LaterGroup>>) :
             s \in {m \in ShotMaps : DOMAIN m = Ids}}

(* parseTrajectory *)

\* the test of the fallback without the look for a "cameras" attribute
IsCameraContainerAnyObject(f) ==
    /\ f.isArray
    /\ Len(f.elems) > 0
    /\ ~f.elems[1].isNull

\* The first field, in Object.values order, that is a non-empty array whose
\* first element is an object with a "cameras" attribute.
IsCameraContainer(f) ==
    /\ f.isArray
    /\ Len(f.elems) > 0
    /\ ~f.elems[1].isNull
    /\ f.elems[1].hasCameras

fallbackTrajectoryGroup(geo) ==
    LET hits == {i \in 1..Len(geo.fields) : IsCameraContainer(geo.fields[i])}
    IN IF hits = {}
       THEN [defined |-> FALSE, elems |-> <<>>]
       ELSE LET first == CHOOSE i \in hits : \A j \in hits : i <= j
            IN [defined |-> TRUE, elems |-> geo.fields[first].elems]

\* geojsonData.trajectories?.[0]: defined unless the attribute is missing,
\* is not an array, is empty, or its first element is null
TrajectoriesFirst(geo) ==
    LET hits == {i \in 1..Len(geo.fields) : geo.fields[i].key = "trajectories"}
    IN IF hits = {}
       THEN [defined |-> FALSE, group |-> NullGroup]
       ELSE LET f == geo.fields[CHOOSE i \in hits : TRUE]
            IN IF f.isArray /\ Len(f.elems) > 0 /\ ~f.elems[1].isNull
               THEN [defined |-> TRUE, group |-> f.elems[1]]
               ELSE [defined |-> FALSE, group |-> NullGroup]

\* const trajectory = geojsonData.trajectories?.[0] ?? fallbackTrajectoryGroup?.[0]
trajectory(geo) ==
    LET t == TrajectoriesFirst(geo)
        fb == fallbackTrajectoryGroup(geo)
    IN IF t.defined THEN t
       ELSE IF fb.defined THEN [defined |-> TRUE, group |-> fb.elems[1]]
       ELSE [defined |-> FALSE, group |-> NullGroup]

\* the guard testing only for a missing attribute
NoCameraListOnlyMissing(t) ==
    \/ ~t.defined
    \/ ~t.group.hasCameras

\* !trajectory || !trajectory.cameras
NoCameraList(t) ==
    \/ ~t.defined
    \/ ~t.group.hasCameras
    \/ t.group.camerasKind = "null"

LineString(cs) ==
    [type |-> "Feature", geometry |-> [type |-> "LineString", coordinates |-> cs]]

\* the literal returned when no group or no camera list is found
EmptyParsed ==
    [cameras |-> <<>>, lineFeature |-> LineString(<<>>),
     bounds |-> <<<<0, 0>>, <<0, 0>>>>]

\* value of the variable parsed while nothing has been returned
NoParsed == [cameras |-> <<>>, lineFeature |-> LineString(<<>>), bounds |-> <<>>]

\* the capture_time lookup: ids of the first group's shots that have a
\* capture_time, with that time
captureTimeMap(json) ==
    IF json.isNull \/ Len(json.groups) = 0
    THEN [id \in {} |-> 0]
    ELSE LET shots == json.groups[1].shots
             timed == {id \in DOMAIN shots : shots[id].hasCaptureTime}
         IN [id \in timed |-> shots[id].capture_time]

\* Object.entries(shots) raises when the first group has no shots
MetadataThrows(json) ==
    /\ ~json.isNull
    /\ Len(json.groups) > 0
    /\ ~json.groups[1].hasShots

\* the camera record with the raw coordinate order
CameraDataNoSwap(cam, times) ==
    [id |-> cam.id,
     coordinates |-> <<cam.coordinates[1], cam.coordinates[2]>>,
     elevation |-> cam.coordinates[3],
     rotation |-> cam.rotation,
     hasCaptureTime |-> cam.id \in DOMAIN times,
     captureTime |-> IF cam.id \in DOMAIN times THEN times[cam.id] ELSE 0]

\* the callback of trajectory.cameras.map
CameraData(cam, times) ==
    [id |-> cam.id,
     coordinates |-> swapLatLon(cam.coordinates),
     elevation |-> cam.coordinates[3],
     rotation |-> cam.rotation,
     hasCaptureTime |-> cam.id \in DOMAIN times,
     captureTime |-> IF cam.id \in DOMAIN times THEN times[cam.id] ELSE 0]

\* swapLatLon raises on a camera without coordinates
CamerasThrow(cams) == \E k \in 1..Len(cams) : ~cams[k].hasCoordinates

(* cameras.sort(comparator) *)

\* a comparator that tries to put cameras without a capture time last
CompareUndefinedLast(a, b) ==
    IF a.hasCaptureTime /\ b.hasCaptureTime
    THEN a.captureTime - b.captureTime
    ELSE IF a.hasCaptureTime THEN -1 ELSE 1

\* the comparator handed to Array.prototype.sort
Compare(a, b) ==
    IF a.hasCaptureTime /\ b.hasCaptureTime
    THEN a.captureTime - b.captureTime
    ELSE 0

\* Array.prototype.sort is the engine's.  ECMAScript makes it stable and
\* leaves the order implementation-defined when the comparator is not
\* consistent, as this one is not once some camera has no capture time
\* (a ~ u, u ~ b does not give a ~ b).  The outcomes modelled are those of
\* the stable algorithms engines use on short arrays: binary insertion
\* after run detection (V8's TimSort below its minimum run length), linear
\* insertion, and merge sort with any split.

RECURSIVE RunLength(_, _)
\* length of the run starting at 1 that reaches at least index k
RunLength(work, k) ==
    IF k >= Len(work) THEN k
    ELSE LET order == Compare(work[k + 1], work[k])
             isDescending == Compare(work[2], work[1]) < 0
         IN IF (isDescending /\ order >= 0) \/ (~isDescending /\ order < 0)
            THEN k
            ELSE RunLength(work, k + 1)

Reverse(s) == [i \in 1..Len(s) |-> s[Len(s) + 1 - i]]

\* CountAndMakeRun: a strictly descending run is reversed in place
CountAndMakeRun(work) ==
    LET n == RunLength(work, 2)
        isDescending == Compare(work[2], work[1]) < 0
    IN [length |-> n,
        work |-> IF isDescending
                 THEN Reverse(SubSeq(work, 1, n)) \o SubSeq(work, n + 1, Len(work))
                 ELSE work]

RECURSIVE BinarySearch(_, _, _, _)
\* left and right are 0-based
BinarySearch(work, pivot, left, right) ==
    IF left < right
    THEN LET mid == left + ((right - left) \div 2)
         IN IF Compare(pivot, work[mid + 1]) < 0
            THEN BinarySearch(work, pivot, left, mid)
            ELSE BinarySearch(work, pivot, mid + 1, right)
    ELSE left

\* s with its element at 1-based index from moved to 1-based index to <= from
MoveLeft(s, from, to) ==
    [p \in 1..Len(s) |->
        IF p < to \/ p > from THEN s[p]
        ELSE IF p = to THEN s[from]
        ELSE s[p - 1]]

RECURSIVE BinaryInsertionSort(_, _)
\* start is 0-based: work[0 .. start) is sorted
BinaryInsertionSort(work, start) ==
    IF start >= Len(work) THEN work
    ELSE LET left == BinarySearch(work, work[start + 1], 0, start)
         IN BinaryInsertionSort(MoveLeft(work, start + 1, left + 1), start + 1)

TimSort(s) ==
    IF Len(s) < 2 THEN s
    ELSE LET run == CountAndMakeRun(s)
         IN BinaryInsertionSort(run.work, run.length)

RECURSIVE SlideLeft(_, _)
\* linear insertion: the element at 1-based j moves left while its left
\* neighbour compares greater
SlideLeft(work, j) ==
    IF j > 1 /\ Compare(work[j - 1], work[j]) > 0
    THEN SlideLeft(MoveLeft(work, j, j - 1), j - 1)
    ELSE work

RECURSIVE InsertionSort(_, _)
InsertionSort(work, i) ==
    IF i > Len(work) THEN work
    ELSE InsertionSort(SlideLeft(work, i), i + 1)

RECURSIVE Merge(_, _)
\* stable merge: the right head is taken only when the left head compares greater
Merge(l, r) ==
    IF l = <<>> THEN r
    ELSE IF r = <<>> THEN l
    ELSE IF Compare(l[1], r[1]) > 0
         THEN <<r[1]>> \o Merge(l, Tail(r))
         ELSE <<l[1]>> \o Merge(Tail(l), r)

RECURSIVE MergeSorts(_)
MergeSorts(s) ==
    IF Len(s) < 2 THEN {s}
    ELSE UNION {{Merge(l, r) : l \in MergeSorts(SubSeq(s, 1, k)),
                               r \in MergeSorts(SubSeq(s, k + 1, Len(s)))} :
                k \in 1..(Len(s) - 1)}

\* the array left as it was
SortedNotAtAll(s) == {s}

\* the orders cameras.sort may leave the array in

Sorted(s) == {TimSort(s), InsertionSort(s, 2)} \cup MergeSorts(s)

(* parseTrajectory, continued *)

\* the ParsedTrajectory built from the final camera sequence
Derived(cams) ==
    [cameras |-> cams,
     lineFeature |-> LineString([k \in 1..Len(cams) |-> cams[k].coordinates]),
     bounds |-> calculateBounds([k \in 1..Len(cams) |-> cams[k].coordinates])]

\* The outcomes of parseTrajectory(geo, json): threw says the call raised a
\* TypeError, value is the ParsedTrajectory returned otherwise.
Threw == [threw |-> TRUE, value |-> NoParsed]
Returned(v) == [threw |-> FALSE, value |-> v]

\* lines 97-133: map the raw cameras, sort when the lookup is non-empty,
\* derive line and bounds from the sorted sequence
BuildResultLineBeforeSort(raw, times) ==
    LET mapped == [k \in 1..Len(raw) |-> CameraData(raw[k], times)]
        line == LineString([k \in 1..Len(raw) |-> mapped[k].coordinates])
    IN IF DOMAIN times # {}
       THEN {Returned([Derived(s) EXCEPT !.lineFeature = line]) : s \in Sorted(mapped)}
       ELSE {Returned(Derived(mapped))}

BuildResult(raw, times) ==
    LET mapped == [k \in 1..Len(raw) |-> CameraData(raw[k], times)]
    IN IF DOMAIN times # {}
       THEN {Returned(Derived(s)) : s \in Sorted(mapped)}
       ELSE {Returned(Derived(mapped))}

parseTrajectory(geo, json) ==
    IF geo.isNull THEN {Threw}                       \* Object.values(null)
    ELSE LET t == trajectory(geo)
         IN IF NoCameraList(t) THEN {Returned(EmptyParsed)}
            ELSE IF MetadataThrows(json) THEN {Threw}
            ELSE IF t.group.camerasKind # "list" THEN {Threw}   \* cameras.map
            ELSE IF CamerasThrow(t.group.cameras) THEN {Threw}
            ELSE BuildResult(t.group.cameras, captureTimeMap(json))

(* camerasToGeoJSON *)

\* the feature with the position written back in the raw order
FeatureRawOrder(cam, index, selected) ==
    [type |-> "Feature",
     properties |-> [id |-> cam.id, index |-> index, elevation |-> cam.elevation,
                     captureTimeIsNull |-> ~cam.hasCaptureTime,
                     captureTime |-> cam.captureTime,
                     selected |-> (index = selected)],
     geometry |-> [type |-> "Point",
                   coordinates |-> <<cam.coordinates[2], cam.coordinates[1]>>]]

\* the feature with the selection off by one
FeatureSelectsNext(cam, index, selected) ==
    [type |-> "Feature",
     properties |-> [id |-> cam.id, index |-> index, elevation |-> cam.elevation,
                     captureTimeIsNull |-> ~cam.hasCaptureTime,
                     captureTime |-> cam.captureTime,
                     selected |-> (index + 1 = selected)],
     geometry |-> [type |-> "Point", coordinates |-> cam.coordinates]]

\* the feature built for the camera at 0-based index
Feature(cam, index, selected) ==
    [type |-> "Feature",
     properties |-> [id |-> cam.id, index |-> index, elevation |-> cam.elevation,
                     captureTimeIsNull |-> ~cam.hasCaptureTime,
                     captureTime |-> cam.captureTime,
                     selected |-> (index = selected)],
     geometry |-> [type |-> "Point", coordinates |-> cam.coordinates]]

camerasToGeoJSON(cams, selected) ==
    [type |-> "FeatureCollection",
     features |-> [k \in 1..Len(cams) |-> Feature(cams[k], k - 1, selected)]]

NoCollection == [type |-> "none", features |-> <<>>]

(* Inputs of the geometry utilities and of camerasToGeoJSON *)

Lats == (-1)..(MaxCoord - 1)
Lons == (-MaxCoord)..MaxCoord
Triples == {<<lat, lon, elev>> : lat \in Lons, lon \in Lons, elev \in Lons}
Points == {<<lon, lat>> : lon \in Lons, lat \in Lats}

NoTimes == [id \in {} |-> 0]

CameraPool ==
    {CameraData(c, NoTimes) : c \in WellFormedCameras}
    \cup {CameraData(c, [id \in {c.id} |-> MaxTime]) : c \in WellFormedCameras}

(* File loaders: names, paths and file contents *)

MaxEntries == 3

\* the suffix tested by name.endsWith, for the names of the modelled trees
Extension(name) ==
    CASE name \in {"trajectory.geojson", "objects.geojson", "a.geojson", "b.geojson"}
             -> ".geojson"
      [] name \in {"trajectory.json", "a.json", "meta.json"} -> ".json"
      [] name = "x.jpg" -> ".jpg"
      [] name = "y.jpeg" -> ".jpeg"
      [] name = "z.png" -> ".png"
      [] OTHER -> ""

EndsWith(name, ext) == Extension(name) = ext

\* An entry: its path as the sequence of its '/'-separated segments; a
\* directory entry is the path followed by '/'.  content is the text of a
\* file: "object" (JSON of a truthy value), "falsy" (JSON null, false, 0 or
\* ""), "invalid" (not JSON) or "blob" (an image).
File(path, content) == [path |-> path, dir |-> FALSE, content |-> content]
Folder(path) == [path |-> path, dir |-> TRUE, content |-> "none"]

\* path.startsWith(folder + '/'); folder = <<>> is the empty prefix
StartsWith(e, folder) ==
    \/ folder = <<>>
    \/ /\ Len(e.path) >= Len(folder)
       /\ SubSeq(e.path, 1, Len(folder)) = folder
       /\ (Len(e.path) > Len(folder) \/ e.dir)

\* path.slice(prefix.length) of a file entry under the prefix
Slice(e, folder) == SubSeq(e.path, Len(folder) + 1, Len(e.path))

Last(path) == path[Len(path)]

\* a value of LoadedData: null, or the parsed text of the file it came from
Null == [from |-> <<>>, kind |-> "null"]
Parse(path, content) == [from |-> path, kind |-> content]
Truthy(v) == v.kind = "object"

NoData == [trajectoryGeojson |-> Null, trajectoryJson |-> Null, objectsGeojson |-> Null]

(* readFromDirectory *)

\* The entries a directory handle enumerates: the immediate children of the
\* folder, each once, in the order of the tree.
RECURSIVE Children(_, _, _)
Children(fs, folder, n) ==
    IF n = 0 THEN <<>>
    ELSE LET prev == Children(fs, folder, n - 1)
             e == fs[n]
         IN IF ~(StartsWith(e, folder) /\ Len(e.path) > Len(folder)) THEN prev
            ELSE LET name == e.path[Len(folder) + 1]
                     isFile == Len(e.path) = Len(folder) + 1 /\ ~e.dir
                     child == [name |-> name,
                               kind |-> IF isFile THEN "file" ELSE "directory",
                               path |-> Append(folder, name),
                               content |-> IF isFile THEN e.content ELSE "none"]
                 IN IF \E k \in 1..Len(prev) : prev[k].name = name
                    THEN prev
                    ELSE Append(prev, child)

\* one iteration of the for-await loop over the top-level entries
DirStep(acc, c) ==
    LET parsedText == Parse(c.path, c.content)
        throws == c.content = "invalid"
    IN IF acc.threw THEN acc
       ELSE IF c.kind = "file"
       THEN IF c.name = "trajectory.geojson"
            THEN [acc EXCEPT !.threw = throws, !.trajectoryGeojson = parsedText]
            ELSE IF /\ ~Truthy(acc.trajectoryGeojson)
                    /\ EndsWith(c.name, ".geojson")
                    /\ c.name # "objects.geojson"
            THEN [acc EXCEPT !.threw = throws, !.trajectoryGeojson = parsedText]
            ELSE IF c.name = "trajectory.json"
            THEN [acc EXCEPT !.threw = throws, !.trajectoryJson = parsedText]
            ELSE IF /\ ~Truthy(acc.trajectoryJson)
                    /\ EndsWith(c.name, ".json")
                    /\ c.name # "trajectory.json"
            THEN [acc EXCEPT !.threw = throws, !.trajectoryJson = parsedText]
            ELSE IF c.name = "objects.geojson"
            THEN [acc EXCEPT !.threw = throws, !.objectsGeojson = parsedText]
            ELSE acc
       ELSE IF c.kind = "directory" /\ c.name = "images"
       THEN [acc EXCEPT !.imagesDir = TRUE]
       ELSE acc

RECURSIVE DirLoop(_, _)
DirLoop(acc, cs) ==
    IF cs = <<>> THEN acc ELSE DirLoop(DirStep(acc, Head(cs)), Tail(cs))

\* the keys of the imageHandles map: the names of the files directly in
\* images/ (one-segment paths)
ImageHandleKeys(fs, root, imagesDir) ==
    IF ~imagesDir THEN {}
    ELSE LET cs == Children(fs, Append(root, "images"), Len(fs))
         IN {<<cs[k].name>> : k \in {j \in 1..Len(cs) : cs[j].kind = "file"}}

readFromDirectory(fs, root) ==
    LET acc == DirLoop([threw |-> FALSE, trajectoryGeojson |-> Null,
                        trajectoryJson |-> Null, objectsGeojson |-> Null,
                        imagesDir |-> FALSE],
                       Children(fs, root, Len(fs)))
    IN [threw |-> acc.threw,
        data |-> IF acc.threw THEN NoData
                 ELSE [trajectoryGeojson |-> acc.trajectoryGeojson,
                       trajectoryJson |-> acc.trajectoryJson,
                       objectsGeojson |-> acc.objectsGeojson],
        imageHandles |-> IF acc.threw THEN {}
                         ELSE ImageHandleKeys(fs, root, acc.imagesDir)]

(* readFromZip *)

\* every entry starts with the candidate, without the folder-name case
allMatchStartsWithOnly(fs, candidate) ==
    \A i \in 1..Len(fs) : StartsWith(fs[i], candidate)

\* files.every(f => f.startsWith(candidate) || f === candidate.slice(0, -1))
allMatch(fs, candidate) ==
    \A i \in 1..Len(fs) :
        \/ StartsWith(fs[i], candidate)
        \/ (fs[i].path = candidate /\ ~fs[i].dir)

\* The detected common prefix, as a folder path (<<>> for '').  The first
\* '/' of files[0] is at a positive index when the path has a second
\* segment or is a directory entry.
prefix(fs) ==
    IF Len(fs) = 0 THEN <<>>
    ELSE IF ~(Len(fs[1].path) >= 2 \/ fs[1].dir) THEN <<>>
    ELSE LET candidate == <<fs[1].path[1]>>
         IN IF allMatch(fs, candidate) THEN candidate ELSE <<>>

\* zip.file(name): the index of the file entry of that path, 0 for null
ZipFile(fs, path) ==
    LET hits == {i \in 1..Len(fs) : fs[i].path = path /\ ~fs[i].dir}
    IN IF hits = {} THEN 0 ELSE CHOOSE i \in hits : TRUE

\* Object.entries(zip.files).find(...): the index of the first hit, 0 for none
FirstOf(hits) == IF hits = {} THEN 0 ELSE CHOOSE i \in hits : \A j \in hits : i <= j

geojsonFile(fs, pre) ==
    LET exact == ZipFile(fs, Append(pre, "trajectory.geojson"))
    IN IF exact # 0 THEN exact
       ELSE FirstOf({i \in 1..Len(fs) :
                /\ ~fs[i].dir
                /\ StartsWith(fs[i], pre)
                /\ LET name == Slice(fs[i], pre)
                   IN /\ name # <<>>
                      /\ EndsWith(Last(name), ".geojson")
                      /\ name # <<"objects.geojson">>})

jsonFile(fs, pre) ==
    LET exact == ZipFile(fs, Append(pre, "trajectory.json"))
    IN IF exact # 0 THEN exact
       ELSE FirstOf({i \in 1..Len(fs) :
                /\ ~fs[i].dir
                /\ StartsWith(fs[i], pre)
                /\ LET name == Slice(fs[i], pre)
                   IN /\ name # <<>>
                      /\ EndsWith(Last(name), ".json")
                      /\ ~EndsWith(Last(name), ".geojson")
                      /\ name # <<"trajectory.json">>})

objectsFile(fs, pre) == ZipFile(fs, Append(pre, "objects.geojson"))

\* JSON.parse(await file.async('text')) of the entry at index i, null for i = 0
ParsedEntry(fs, i) == IF i = 0 THEN Null ELSE Parse(fs[i].path, fs[i].content)

\* the test of the image loop without the test of the extension
IsImageEntryAnyFile(e, pre) ==
    /\ StartsWith(e, Append(pre, "images"))
    /\ ~e.dir
    /\ Slice(e, Append(pre, "images")) # <<>>

\* the test of the image loop: a file under <prefix>images/ with a name
\* ending in .jpg, .jpeg or .png
IsImageEntry(e, pre) ==
    /\ StartsWith(e, Append(pre, "images"))
    /\ ~e.dir
    /\ LET filename == Slice(e, Append(pre, "images"))
       IN /\ filename # <<>>
          /\ \/ EndsWith(Last(filename), ".jpg")
             \/ EndsWith(Last(filename), ".jpeg")
             \/ EndsWith(Last(filename), ".png")

\* the filenames of the image entries, in the order of the archive
RECURSIVE ImageFilenames(_, _, _)
ImageFilenames(fs, pre, n) ==
    IF n = 0 THEN <<>>
    ELSE LET prev == ImageFilenames(fs, pre, n - 1)
         IN IF IsImageEntry(fs[n], pre)
            THEN Append(prev, Slice(fs[n], Append(pre, "images")))
            ELSE prev

readFromZip(fs) ==
    LET pre == prefix(fs)
        geo == ParsedEntry(fs, geojsonFile(fs, pre))
        json == ParsedEntry(fs, jsonFile(fs, pre))
        objects == ParsedEntry(fs, objectsFile(fs, pre))
        threw == "invalid" \in {geo.kind, json.kind, objects.kind}
    IN [threw |-> threw,
        prefix |-> pre,
        data |-> IF threw THEN NoData
                 ELSE [trajectoryGeojson |-> geo, trajectoryJson |-> json,
                       objectsGeojson |-> objects],
        images |-> IF threw THEN <<>> ELSE ImageFilenames(fs, pre, Len(fs))]

(* readFromUrls and the fetch of _loadZipFromUrl *)

\* the three resources of readFromUrls, and the archive of _loadZipFromUrl
Slots == {"trajectoryGeojson", "trajectoryJson", "objects"}
AllSlots == Slots \cup {"zip"}

\* What the server answers: the request fails (network "error"), or a
\* response arrives with an OK or non-OK status and a body that is JSON of a
\* truthy value ("object"), JSON of a falsy value, or not JSON ("invalid").
Response(network, ok, body) == [network |-> network, ok |-> ok, body |-> body]
NetworkError == Response("error", FALSE, "invalid")
Responses ==
    {NetworkError}
    \cup {Response("ok", ok, body) : ok \in BOOLEAN, body \in {"object", "invalid"}}

\* A request: given = a URL was passed; fetched = fetch was called; state is
\* "none", "fetching", "parsing" (r.json() pending), "fulfilled" or "rejected".
Request(given, response) ==
    [given |-> given, response |-> response, fetched |-> FALSE, state |-> "none",
     value |-> Null]
NoRequest == Request(FALSE, NetworkError)

\* url ? fetch(url).then((r) => r.json()) : Promise.resolve(null)
Issue(r) ==
    IF r.given
    THEN [r EXCEPT !.fetched = TRUE, !.state = "fetching"]
    ELSE [r EXCEPT !.state = "fulfilled", !.value = Null]

\* fetch settles: it rejects on a network error only
FetchSettled(r) ==
    IF r.response.network = "error"
    THEN [r EXCEPT !.state = "rejected"]
    ELSE [r EXCEPT !.state = "parsing"]

\* r.json() settles: it rejects when the body is not JSON
JsonSettled(r, slot) ==
    IF r.response.body = "invalid"
    THEN [r EXCEPT !.state = "rejected"]
    ELSE [r EXCEPT !.state = "fulfilled", !.value = Parse(<<slot>>, r.response.body)]

\* What an image resolver returns: null, an object URL (url is its number,
\* from 1, in the order of creation), or base path + '/' + image id.
NullUrl == [kind |-> "null", url |-> 0, imageId |-> <<>>]
ObjectUrl(n, imageId) == [kind |-> "blob", url |-> n, imageId |-> imageId]
HttpUrl(imageId) == [kind |-> "http", url |-> 0, imageId |-> imageId]

\* Promise.all fulfils once the geometry request is fulfilled
AllFulfilledGeometryOnly(reqs) == reqs["trajectoryGeojson"].state = "fulfilled"

\* Promise.all fulfils when every input promise is fulfilled
AllFulfilled(reqs) == \A s \in Slots : reqs[s].state = "fulfilled"

\* Promise.all rejects when an input promise is rejected
SomeRejected(reqs) == \E s \in Slots : reqs[s].state = "rejected"

(* Image resolvers and their cleanup *)

MaxResolves == 2
MaxCleanups == 2

\* a call of the resolver: state "getFile" while it awaits
\* fileHandle.getFile(), "returned" afterwards; atCleanups is the number of
\* cleanup calls made before the call
ResolveCall(imageId, state, result, atCleanups) ==
    [imageId |-> imageId, state |-> state, result |-> result, atCleanups |-> atCleanups]

\* URL.revokeObjectURL(url) for each url of the collection
Revoke(registry, urls) ==
    [u \in DOMAIN registry |-> IF u \in urls THEN registry[u] + 1 ELSE registry[u]]

\* a cleanup that leaves its collection as it is
NotCleared(held, empty) == held

\* blobUrls.clear(), imageBlobUrls.clear()
Cleared(held, empty) == empty

ValuesOf(map) == {map[k] : k \in DOMAIN map}

(***************************************************************************)
(* GeoPhotoControl.  Its methods are functions of `s`, a record of the     *)
(* control's fields and of what they act on: the panel, the map's geophoto *)
(* sources, layers and listeners, the interval timers, the resolvers'      *)
(* object URLs.  A LoadedData is known by the number of the load that      *)
(* produced it; a camera by its dataset and its place in the parsed list.  *)
(* The options are the defaults (showPath, fitBoundsOnLoad, no             *)
(* showPathDirectionArrows, no preloadUrl) and the datasets come without   *)
(* objects.geojson; the listeners of _setupMapInteractions are left out.   *)
(* The map is MapLibre's: addSource throws when the id is taken.           *)
(***************************************************************************)

Datasets == 1..MaxLoads

NoResolver == 0

Camera(d, i) == [data |-> d, id |-> i]

NoCamera == Camera(0, 0)

\* parseTrajectory(data.trajectoryGeojson, data.trajectoryJson).cameras
ParsedCameras(d, n) == [i \in 1..n |-> Camera(d, i)]

SourceIds == {"geophoto-cameras", "geophoto-path"}

NoSources == [id \in SourceIds |-> <<>>]

\* what a loader settles with: a rejection, or a LoadedData
Settled(threw, name, geojson, parseThrows, n) ==
    [threw |-> threw, name |-> name, trajectoryGeojson |-> geojson,
     parseThrows |-> parseThrows, cameras |-> n]

NoLoad == [loader |-> "", pc |-> "idle"]

\* nothing settled in the last step
NoSettled == [load |-> 0, picker |-> FALSE, result |-> Settled(FALSE, "", FALSE, FALSE, 0)]

\* the loader behind each API: readFromDirectory, readFromZip, readFromUrls
LoaderOf(api) ==
    IF api = "openFolder" THEN "readFromDirectory"
    ELSE IF api = "loadFromUrls" THEN "readFromUrls"
    ELSE "readFromZip"

\* the names of the errors a loader rejects with; only openFolder reads the name
ErrorNames(loader) ==
    IF loader = "readFromDirectory" THEN {"Error", "AbortError"} ELSE {"Error"}

LoaderResults(loader) ==
    {Settled(TRUE, name, FALSE, FALSE, 0) : name \in ErrorNames(loader)}
    \cup {Settled(FALSE, "", FALSE, FALSE, 0), Settled(FALSE, "", TRUE, TRUE, 0)}
    \cup {Settled(FALSE, "", TRUE, FALSE, n) : n \in 0..MaxParsed}

\* the state a handler starts in
This ==
    [map |-> _map, state |-> _state, cameras |-> _cameras,
     currentIndex |-> _currentIndex, imageResolver |-> _imageResolver,
     isPlaying |-> _isPlaying, playTimer |-> _playTimer, panel |-> panel,
     imageEl |-> _imageEl, sources |-> sources, layers |-> layers,
     intervals |-> intervals, pending |-> pending,
     unrevoked |-> unrevoked, cleaned |-> cleaned, emitted |-> <<>>, console |-> "",
     threw |-> FALSE]

\* the state a handler leaves
Becomes(s) ==
    /\ _map' = s.map
    /\ _state' = s.state
    /\ _cameras' = s.cameras
    /\ _currentIndex' = s.currentIndex
    /\ _imageResolver' = s.imageResolver
    /\ _isPlaying' = s.isPlaying
    /\ _playTimer' = s.playTimer
    /\ panel' = s.panel
    /\ _imageEl' = s.imageEl
    /\ sources' = s.sources
    /\ layers' = s.layers
    /\ intervals' = s.intervals
    /\ pending' = s.pending
    /\ unrevoked' = s.unrevoked
    /\ cleaned' = s.cleaned
    /\ emitted' = s.emitted
    /\ console' = s.console

_emit(s, event) == [s EXCEPT !.emitted = Append(@, event)]

Throw(s) == [s EXCEPT !.threw = TRUE]

toggle(s) ==
    LET t == [s EXCEPT !.state.collapsed = ~@]
        u == IF ~t.map THEN t
             ELSE _emit(t, IF t.state.collapsed THEN "collapse" ELSE "expand")
    IN _emit(u, "statechange")

expand(s) == IF s.state.collapsed THEN toggle(s) ELSE s

_showFilePicker(s) == IF s.panel = "none" THEN s ELSE [s EXCEPT !.panel = "filePicker"]

_showLoading(s) ==
    expand(IF s.panel = "none" THEN s ELSE [s EXCEPT !.panel = "loading"])

_showViewer(s) == IF s.panel = "none" THEN s ELSE [s EXCEPT !.panel = "viewer"]

\* imageResolver.cleanup() of LoadedData d: revokes and forgets its URLs
cleanup(s, d) ==
    [s EXCEPT !.unrevoked[d] = FALSE,
              !.cleaned[d] = IF @ < MaxCleanups THEN @ + 1 ELSE @]

_revokeBlobs(s) ==
    IF s.imageResolver = NoResolver THEN s ELSE cleanup(s, s.imageResolver)

stop(s) ==
    IF ~s.isPlaying THEN s
    ELSE [s EXCEPT !.isPlaying = FALSE,
                   !.playTimer = FALSE,
                   !.intervals = IF s.playTimer THEN @ - 1 ELSE @]

play(s) ==
    IF s.isPlaying \/ Len(s.cameras) = 0 THEN s
    ELSE [s EXCEPT !.isPlaying = TRUE, !.playTimer = TRUE, !.intervals = @ + 1]

\* camerasToGeoJSON(cameras, selectedIndex) as the data of the camera source
CameraSource(list, index) == <<list, index>>

\* the image resolver of LoadedData d called for a camera, up to its first
\* await: readFromDirectory's suspends at getFile(), readFromZip's answers
\* from imageBlobUrls, readFromUrls' always answers
_updateViewer(s) ==
    IF s.currentIndex + 1 \notin DOMAIN s.cameras THEN s
    ELSE IF s.panel = "none" \/ s.imageResolver = NoResolver THEN s
    ELSE LET camera == s.cameras[s.currentIndex + 1]
             d == s.imageResolver
             loader == loads[d].loader
         IN IF loader = "readFromDirectory"
            THEN [s EXCEPT !.pending = @ \cup {[resolver |-> d,
                                                loadIndex |-> s.currentIndex]}]
            ELSE IF loader = "readFromZip" /\ ~s.unrevoked[d] THEN s
            ELSE [s EXCEPT !.imageEl = camera]

_updateMapSelection(s) ==
    IF ~s.map \/ s.sources["geophoto-cameras"] = <<>> THEN s
    ELSE [s EXCEPT !.sources["geophoto-cameras"] =
                       CameraSource(s.cameras, s.currentIndex)]

selectCamera(s, index) ==
    IF index < 0 \/ index >= Len(s.cameras) THEN s
    ELSE _emit(_updateMapSelection(_updateViewer([s EXCEPT !.currentIndex = index])),
               "cameraselect")

nextCamera(s) ==
    IF s.currentIndex < Len(s.cameras) - 1 THEN selectCamera(s, s.currentIndex + 1)
    ELSE s

prevCamera(s) ==
    IF s.currentIndex > 0 THEN selectCamera(s, s.currentIndex - 1) ELSE s

firstCamera(s) == IF Len(s.cameras) > 0 THEN selectCamera(s, 0) ELSE s

lastCamera(s) ==
    IF Len(s.cameras) > 0 THEN selectCamera(s, Len(s.cameras) - 1) ELSE s

\* the callback play() hands to setInterval
tick(s) ==
    IF s.currentIndex < Len(s.cameras) - 1 THEN selectCamera(s, s.currentIndex + 1)
    ELSE stop(s)

\* Map.addSource
addSource(s, id, data) ==
    IF s.sources[id] # <<>> THEN Throw(s) ELSE [s EXCEPT !.sources[id] = data]

\* Map.addLayer
addLayer(s, id) == [s EXCEPT !.layers = @ \cup {id}]

_setupMapLayers(s, d) ==
    IF ~s.map THEN s
    ELSE LET a == addSource(s, "geophoto-cameras", CameraSource(s.cameras, -1))
             b == addSource(a, "geophoto-path", <<d>>)
         IN IF a.threw THEN a
            ELSE IF b.threw THEN b
            ELSE addLayer(addLayer(addLayer(b, "geophoto-path-line"),
                                   "geophoto-cameras-points"),
                          "geophoto-cameras-selected")

_cleanupMapLayers(s) ==
    IF ~s.map THEN s ELSE [s EXCEPT !.layers = {}, !.sources = NoSources]

clearDataKeepsResolver(s) ==
    LET t == _revokeBlobs(_cleanupMapLayers(stop(s)))
    IN _emit(_showFilePicker([t EXCEPT !.cameras = <<>>, !.currentIndex = -1]),
             "datacleared")

clearData(s) ==
    LET t == _revokeBlobs(_cleanupMapLayers(stop(s)))
    IN _emit(_showFilePicker([t EXCEPT !.cameras = <<>>,
                                       !.currentIndex = -1,
                                       !.imageResolver = NoResolver]),
             "datacleared")

_processLoadedData(s, d, data) ==
    LET revoked == _revokeBlobs(s)
        installed == [revoked EXCEPT !.cameras = ParsedCameras(d, data.cameras),
                                     !.imageResolver = d]
        layered == _setupMapLayers(installed, d)
    IN IF ~data.trajectoryGeojson
       THEN _showFilePicker([revoked EXCEPT !.console = "warn"])
       ELSE IF data.parseThrows THEN Throw(revoked)
       ELSE IF data.cameras = 0
       THEN _showFilePicker([installed EXCEPT !.console = "warn"])
       ELSE IF layered.threw THEN layered
       ELSE _emit(selectCamera(_showViewer(layered), 0), "dataloaded")

\* the catch block of openFolder, which returns on an AbortError, and of the
\* other three APIs, which do not look at the name
CaughtReportsAll(s, loader, name) ==
    _showFilePicker([s EXCEPT !.console = "error", !.threw = FALSE])

Caught(s, loader, name) ==
    IF loader = "readFromDirectory" /\ name = "AbortError"
    THEN [s EXCEPT !.threw = FALSE]
    ELSE _showFilePicker([s EXCEPT !.console = "error", !.threw = FALSE])

(* Specifications: each calls one function once on inputs drawn at Init *)

parserVars == <<geojsonData, jsonData, parsed>>
geoVars == <<coords, swapped, positions, bounds>>
converterVars == <<cameras, selectedIndex, collection>>

urlVars == <<requests, urlLoad, imageBasePath>>

loaderVars == <<files, dirRoot, dirLoad, zipLoad, imageHandles, blobUrls,
                imageBlobUrls, objectUrls, resolves, cleanups, urlVars>>

UrlsIdle ==
    /\ requests = [s \in AllSlots |-> NoRequest]
    /\ urlLoad = [state |-> "idle", data |-> NoData]
    /\ imageBasePath = ""

NoUrls == [filename \in {} |-> 0]

ResolverIdle ==
    /\ imageHandles = {}
    /\ blobUrls = {}
    /\ imageBlobUrls = NoUrls
    /\ objectUrls = <<>>
    /\ resolves = <<>>
    /\ cleanups = 0

LoaderIdle ==
    /\ files = <<>>
    /\ dirRoot = <<>>
    /\ dirLoad = [state |-> "idle", data |-> NoData]
    /\ zipLoad = [state |-> "idle", prefix |-> <<>>, data |-> NoData]
    /\ ResolverIdle
    /\ UrlsIdle

ParserIdle ==
    /\ geojsonData = Geometry(FALSE, <<>>)
    /\ jsonData = Metadata(TRUE, <<>>)
    /\ parsed = NoParsed

GeoIdle ==
    /\ coords = <<0, 0, 0>>
    /\ swapped = <<>>
    /\ positions = <<>>
    /\ bounds = <<>>

ConverterIdle ==
    /\ cameras = <<>>
    /\ selectedIndex = -1
    /\ collection = NoCollection

controlVars == <<_map, _state, _cameras, _currentIndex, _imageResolver, _isPlaying,
                 _playTimer, panel, _imageEl, sources, layers, intervals,
                 pending, unrevoked, cleaned, emitted, console, loads, settled>>

\* the fields of a GeoPhotoControl as its constructor leaves them, in an
\* environment where nothing was loaded
ControlIdle ==
    /\ _map = FALSE
    /\ _state = [collapsed |-> TRUE]
    /\ _cameras = <<>>
    /\ _currentIndex = -1
    /\ _imageResolver = NoResolver
    /\ _isPlaying = FALSE
    /\ _playTimer = FALSE
    /\ panel = "none"
    /\ _imageEl = NoCamera
    /\ sources = NoSources
    /\ layers = {}
    /\ intervals = 0
    /\ pending = {}
    /\ unrevoked = [d \in Datasets |-> FALSE]
    /\ cleaned = [d \in Datasets |-> 0]
    /\ emitted = <<>>
    /\ console = ""
    /\ loads = [d \in Datasets |-> NoLoad]
    /\ settled = NoSettled

Init ==
    /\ fn = "parseTrajectory"
    /\ pc = "call"
    /\ geojsonData \in Geometries
    /\ jsonData \in Metadatas
    /\ parsed = NoParsed
    /\ GeoIdle
    /\ ConverterIdle
    /\ LoaderIdle
    /\ ControlIdle

ParseTrajectory ==
    /\ fn = "parseTrajectory"
    /\ pc = "call"
    /\ \E o \in parseTrajectory(geojsonData, jsonData) :
          /\ pc' = IF o.threw THEN "throw" ELSE "return"
          /\ parsed' = o.value
    /\ UNCHANGED <<fn, geojsonData, jsonData, geoVars, converterVars, loaderVars, controlVars>>

Next == ParseTrajectory

Spec == Init /\ [][Next]_vars

InitGeo ==
    /\ pc = "call"
    /\ \/ fn = "swapLatLon" /\ coords \in Triples /\ positions = <<>>
       \/ fn = "calculateBounds" /\ coords = <<0, 0, 0>>
          /\ positions \in SeqsUpTo(Points, MaxPositions)
    /\ swapped = <<>>
    /\ bounds = <<>>
    /\ ParserIdle
    /\ ConverterIdle
    /\ LoaderIdle
    /\ ControlIdle

SwapLatLon ==
    /\ fn = "swapLatLon"
    /\ pc = "call"
    /\ swapped' = swapLatLon(coords)
    /\ pc' = "return"
    /\ UNCHANGED <<fn, coords, positions, bounds, parserVars, converterVars, loaderVars, controlVars>>

CalculateBounds ==
    /\ fn = "calculateBounds"
    /\ pc = "call"
    /\ bounds' = calculateBounds(positions)
    /\ pc' = "return"
    /\ UNCHANGED <<fn, coords, swapped, positions, parserVars, converterVars, loaderVars, controlVars>>

NextGeo == SwapLatLon \/ CalculateBounds

SpecGeo == InitGeo /\ [][NextGeo]_vars

InitGeoJSON ==
    /\ fn = "camerasToGeoJSON"
    /\ pc = "call"
    /\ cameras \in SeqsUpTo(CameraPool, MaxCameras)
    /\ selectedIndex \in (-1)..MaxCameras
    /\ collection = NoCollection
    /\ ParserIdle
    /\ GeoIdle
    /\ LoaderIdle
    /\ ControlIdle

CamerasToGeoJSON ==
    /\ fn = "camerasToGeoJSON"
    /\ pc = "call"
    /\ collection' = camerasToGeoJSON(cameras, selectedIndex)
    /\ pc' = "return"
    /\ UNCHANGED <<fn, cameras, selectedIndex, parserVars, geoVars, loaderVars, controlVars>>

NextGeoJSON == CamerasToGeoJSON

SpecGeoJSON == InitGeoJSON /\ [][NextGeoJSON]_vars

(* Round trip: the control parses the loaded files and hands the parsed     *)
(* cameras to camerasToGeoJSON, first with no selection, then with the      *)
(* first camera selected                                                    *)

TrajectoriesOnly ==
    {Geometry(FALSE, <<Field("trajectories", TRUE, <<ListGroup(cams)>>)>>) :
        cams \in SeqsUpTo(WellFormedCameras, MaxCameras)}

InitRoundTrip ==
    /\ fn = "parseTrajectory"
    /\ pc = "call"
    /\ geojsonData \in TrajectoriesOnly
    /\ jsonData \in Metadatas
    /\ parsed = NoParsed
    /\ GeoIdle
    /\ ConverterIdle
    /\ LoaderIdle
    /\ ControlIdle

PassCameras ==
    /\ fn = "parseTrajectory"
    /\ pc = "return"
    /\ fn' = "camerasToGeoJSON"
    /\ pc' = "call"
    /\ cameras' = parsed.cameras
    /\ selectedIndex' \in {-1, 0}
    /\ UNCHANGED <<collection, parserVars, geoVars, loaderVars, controlVars>>

NextRoundTrip == ParseTrajectory \/ PassCameras \/ CamerasToGeoJSON

SpecRoundTrip == InitRoundTrip /\ [][NextRoundTrip]_vars

(* Properties of parseTrajectory (specification Spec) *)

Called == fn = "parseTrajectory" /\ pc # "call"
ReturnedParsed == fn = "parseTrajectory" /\ pc = "return"

\* the inputs, read without the parser's own lookup
Located == trajectory(geojsonData)
HasCameraList ==
    /\ ~geojsonData.isNull
    /\ Located.defined
    /\ Located.group.hasCameras
    /\ Located.group.camerasKind = "list"
RawList == Located.group.cameras
ConformantCameras == \A k \in 1..Len(RawList) : RawList[k].hasCoordinates
ConformantMetadata ==
    jsonData.isNull \/ \A i \in 1..Len(jsonData.groups) : jsonData.groups[i].hasShots
FirstShots == jsonData.groups[1].shots
\* ids the first metadata group gives a capture time
TimedIds ==
    IF jsonData.isNull \/ Len(jsonData.groups) = 0 \/ ~jsonData.groups[1].hasShots
    THEN {}
    ELSE {id \in DOMAIN FirstShots : FirstShots[id].hasCaptureTime}

WellFormedParsed(p) ==
    /\ Len(p.lineFeature.geometry.coordinates) = Len(p.cameras)
    /\ Len(p.bounds) = 2
    /\ Len(p.bounds[1]) = 2
    /\ Len(p.bounds[2]) = 2

\* a shape the types RawTrajectoryGeojson / RawTrajectoryJson do not allow
SchemaViolation ==
    \/ geojsonData.isNull
    \/ ~Located.defined
    \/ ~HasCameraList
    \/ ~ConformantCameras
    \/ ~ConformantMetadata

\* C1: parseTrajectory never fails: for every JSON value given as geometry
\* and as metadata, schema-violating shapes included, it returns a
\* well-formed ParsedTrajectory, and a schema violation yields the empty
\* result.  (Violated: the call raises a TypeError on a null geometry, on a
\* cameras value that is not a list, on a camera without coordinates and on
\* a metadata group without shots.)
C1_ParserNeverFails ==
    Called =>
        /\ pc = "return"
        /\ WellFormedParsed(parsed)
        /\ SchemaViolation => parsed = EmptyParsed

\* C2: with no metadata, or a lookup that ends up empty, parseTrajectory
\* returns one camera per raw camera, in raw order, camera k having the id
\* and rotation of raw camera k, coordinates [raw[1], raw[0]], elevation
\* raw[2] and no capture time.
C2_RawOrderWithoutLookup ==
    (Called /\ HasCameraList /\ ConformantCameras /\ ConformantMetadata /\ TimedIds = {}) =>
        /\ pc = "return"
        /\ Len(parsed.cameras) = Len(RawList)
        /\ \A k \in 1..Len(RawList) :
              /\ parsed.cameras[k].id = RawList[k].id
              /\ parsed.cameras[k].rotation = RawList[k].rotation
              /\ parsed.cameras[k].coordinates =
                    <<RawList[k].coordinates[2], RawList[k].coordinates[1]>>
              /\ parsed.cameras[k].elevation = RawList[k].coordinates[3]
              /\ ~parsed.cameras[k].hasCaptureTime

C2_Witness ==
    /\ ReturnedParsed
    /\ HasCameraList
    /\ Len(RawList) = 3
    /\ RawList[1].id = "img3" /\ RawList[2].id = "img1" /\ RawList[3].id = "img2"
    /\ ~jsonData.isNull
    /\ Len(jsonData.groups) = 1
    /\ jsonData.groups[1].hasShots
    /\ DOMAIN FirstShots = {"img1", "img2"}
    /\ TimedIds = {}
    /\ parsed.cameras[1].coordinates = <<0, -47670>>

Injections(n) == {f \in [1..n -> 1..n] : \A i, j \in 1..n : f[i] = f[j] => i = j}

\* C3: when the metadata gives every camera a capture time, the result is
\* a permutation of the raw cameras in non-decreasing capture-time order,
\* cameras with equal capture times keep their raw relative order, and
\* each captureTime is the capture_time of the shot with the same id in
\* the first metadata group.
C3_SortedWhenAllTimed ==
    (Called /\ HasCameraList /\ ConformantCameras /\ ConformantMetadata
       /\ \A k \in 1..Len(RawList) : RawList[k].id \in TimedIds) =>
        /\ pc = "return"
        /\ Len(parsed.cameras) = Len(RawList)
        /\ \E f \in Injections(Len(RawList)) :
              /\ \A k \in 1..Len(RawList) :
                    /\ parsed.cameras[k].id = RawList[f[k]].id
                    /\ parsed.cameras[k].rotation = RawList[f[k]].rotation
                    /\ parsed.cameras[k].coordinates =
                          <<RawList[f[k]].coordinates[2], RawList[f[k]].coordinates[1]>>
                    /\ parsed.cameras[k].elevation = RawList[f[k]].coordinates[3]
                    /\ parsed.cameras[k].hasCaptureTime
                    /\ parsed.cameras[k].captureTime =
                          FirstShots[RawList[f[k]].id].capture_time
              /\ \A j, k \in 1..Len(RawList) :
                    j < k =>
                       \/ parsed.cameras[j].captureTime < parsed.cameras[k].captureTime
                       \/ /\ parsed.cameras[j].captureTime = parsed.cameras[k].captureTime
                          /\ f[j] < f[k]

C3_Witness ==
    /\ ReturnedParsed
    /\ HasCameraList
    /\ Len(RawList) = 3
    /\ RawList[1].id = "img1" /\ RawList[2].id = "img2" /\ RawList[3].id = "img3"
    /\ ~jsonData.isNull
    /\ Len(jsonData.groups) = 2
    /\ TimedIds = Ids
    /\ FirstShots["img1"].capture_time = 2
    /\ FirstShots["img2"].capture_time = 1
    /\ FirstShots["img3"].capture_time = 3
    /\ parsed.cameras[1].id = "img2"
    /\ parsed.cameras[2].id = "img1"
    /\ parsed.cameras[3].id = "img3"
    /\ parsed.cameras[1].captureTime = 1

\* C4: whenever the lookup is non-empty, the returned sequence is sorted
\* ascending by capture time: of two returned cameras that both have a
\* capture time, the one with the smaller time comes first, also when
\* other cameras have none.  (Violated: the comparator answers 0 against a
\* camera without a capture time, so [img1 t=2, img2 no time, img3 t=1]
\* may stay as it is.)
C4_SortedAmongTimed ==
    (ReturnedParsed /\ TimedIds # {}) =>
        \A j, k \in 1..Len(parsed.cameras) :
            (/\ j < k
             /\ parsed.cameras[j].hasCaptureTime
             /\ parsed.cameras[k].hasCaptureTime)
            => parsed.cameras[j].captureTime <= parsed.cameras[k].captureTime

IdsOf(cams) == [k \in 1..Len(cams) |-> cams[k].id]
Untimed(cam) == cam.id \notin TimedIds

C7_GeometryFollowsFinalOrder ==
    ReturnedParsed =>
        /\ Len(parsed.lineFeature.geometry.coordinates) = Len(parsed.cameras)
        /\ \A k \in 1..Len(parsed.cameras) :
              /\ parsed.lineFeature.geometry.coordinates[k] = parsed.cameras[k].coordinates
              /\ parsed.bounds[1][1] <= parsed.cameras[k].coordinates[1]
              /\ parsed.cameras[k].coordinates[1] <= parsed.bounds[2][1]
              /\ parsed.bounds[1][2] <= parsed.cameras[k].coordinates[2]
              /\ parsed.cameras[k].coordinates[2] <= parsed.bounds[2][2]

C7_Witness ==
    /\ ReturnedParsed
    /\ HasCameraList
    /\ Len(RawList) = 3
    /\ IdsOf(RawList) = <<"img3", "img2", "img1">>
    /\ IdsOf(parsed.cameras) = <<"img1", "img2", "img3">>
    /\ parsed.lineFeature.geometry.coordinates[1] = <<-122274, 47671>>
    /\ parsed.bounds = <<<<-122275, -47670>>, <<0, 47672>>>>

(* Properties of the geometry utilities (specification SpecGeo) *)

\* C8: swapLatLon is total and returns [lon, lat] exactly for every input
\* [lat, lon, elev], zero and negative components included, dropping the
\* elevation.
C8_SwapLatLon ==
    (fn = "swapLatLon" /\ pc # "call") =>
        /\ pc = "return"
        /\ Len(swapped) = 2
        /\ swapped[1] = coords[2]
        /\ swapped[2] = coords[1]

C8_Witness ==
    /\ fn = "swapLatLon"
    /\ pc = "return"
    /\ coords = <<-1, 0, 1>>
    /\ swapped = <<0, -1>>

\* C9: calculateBounds returns [[0,0],[0,0]] for an empty list and, for a
\* non-empty list of [lon, lat] points, the componentwise minimum and
\* maximum: minLon <= maxLon, minLat <= maxLat, every point lies in the
\* box, and a single point [x, y] gives [[x, y], [x, y]].
C9_CalculateBounds ==
    (fn = "calculateBounds" /\ pc # "call") =>
        /\ pc = "return"
        /\ Len(bounds) = 2 /\ Len(bounds[1]) = 2 /\ Len(bounds[2]) = 2
        /\ positions = <<>> => bounds = <<<<0, 0>>, <<0, 0>>>>
        /\ positions # <<>> =>
              /\ \E k \in 1..Len(positions) : positions[k][1] = bounds[1][1]
              /\ \E k \in 1..Len(positions) : positions[k][2] = bounds[1][2]
              /\ \E k \in 1..Len(positions) : positions[k][1] = bounds[2][1]
              /\ \E k \in 1..Len(positions) : positions[k][2] = bounds[2][2]
              /\ \A k \in 1..Len(positions) :
                    /\ bounds[1][1] <= positions[k][1] /\ positions[k][1] <= bounds[2][1]
                    /\ bounds[1][2] <= positions[k][2] /\ positions[k][2] <= bounds[2][2]
              /\ bounds[1][1] <= bounds[2][1]
              /\ bounds[1][2] <= bounds[2][2]
        /\ Len(positions) = 1 => bounds = <<positions[1], positions[1]>>

C9_Witness ==
    /\ fn = "calculateBounds"
    /\ pc = "return"
    /\ positions = <<<<0, 0>>, <<1, -1>>, <<-1, 0>>>>
    /\ bounds = <<<<-1, -1>>, <<1, 0>>>>

(* Properties of camerasToGeoJSON (specification SpecGeoJSON) *)

\* C10: camerasToGeoJSON returns one Point feature per camera whose index
\* property is the camera's position in the input; with 0 <= i <
\* cameras.length exactly the feature at index i is selected, and with i
\* out of range (the default -1 included) no feature is selected.
C10_IndexAndSelection ==
    (fn = "camerasToGeoJSON" /\ pc # "call") =>
        /\ pc = "return"
        /\ Len(collection.features) = Len(cameras)
        /\ \A k \in 1..Len(cameras) :
              /\ collection.features[k].geometry.type = "Point"
              /\ collection.features[k].properties.index = k - 1
        /\ LET chosen == {k \in 1..Len(cameras) :
                             collection.features[k].properties.selected}
           IN IF 0 <= selectedIndex /\ selectedIndex < Len(cameras)
              THEN chosen = {selectedIndex + 1}
              ELSE chosen = {}

C10_Witness ==
    /\ fn = "camerasToGeoJSON"
    /\ pc = "return"
    /\ Len(cameras) = 3
    /\ selectedIndex = 1
    /\ collection.features[2].properties.selected
    /\ ~collection.features[1].properties.selected
    /\ ~collection.features[3].properties.selected
    /\ collection.features[3].properties.index = 2

(* Properties of the round trip (specification SpecRoundTrip) *)

Converted == fn = "camerasToGeoJSON" /\ pc = "return"

\* what a reader of the k-th feature gets back
ReadBack(feature) ==
    [id |-> feature.properties.id,
     coordinates |-> feature.geometry.coordinates,
     elevation |-> feature.properties.elevation]

\* C11: for every camera sequence produced by parseTrajectory, the k-th
\* feature of camerasToGeoJSON gives back the k-th camera's id, coordinates
\* and elevation unchanged, and its capture time, or null when the camera
\* has none.
C11_RoundTrip ==
    Converted =>
        /\ Len(collection.features) = Len(parsed.cameras)
        /\ \A k \in 1..Len(parsed.cameras) :
              LET cam == parsed.cameras[k]
                  feature == collection.features[k]
              IN /\ ReadBack(feature) = [id |-> cam.id,
                                         coordinates |-> cam.coordinates,
                                         elevation |-> cam.elevation]
                 /\ feature.properties.captureTimeIsNull = ~cam.hasCaptureTime
                 /\ cam.hasCaptureTime =>
                        feature.properties.captureTime = cam.captureTime

C11_Witness ==
    /\ Converted
    /\ Len(parsed.cameras) = 2
    /\ parsed.cameras[1].hasCaptureTime
    /\ ~parsed.cameras[2].hasCaptureTime
    /\ parsed.cameras[1].coordinates[1] # parsed.cameras[1].coordinates[2]
    /\ collection.features[2].properties.captureTimeIsNull
    /\ collection.features[1].geometry.coordinates = parsed.cameras[1].coordinates

(* Where parseTrajectory takes its cameras from (specification Spec) *)

\* a field whose value is a non-empty array with a non-null first element
HasFirstElement(f) == f.isArray /\ Len(f.elems) > 0 /\ ~f.elems[1].isNull

\* the returned cameras are those of the group g, in some order
TakenFrom(g) ==
    IF g.hasCameras /\ g.camerasKind = "list"
    THEN /\ Len(parsed.cameras) = Len(g.cameras)
         /\ \A id \in Ids :
               Cardinality({k \in 1..Len(parsed.cameras) : parsed.cameras[k].id = id})
                   = Cardinality({k \in 1..Len(g.cameras) : g.cameras[k].id = id})
    ELSE parsed = EmptyParsed

\* C12: parseTrajectory takes its cameras from the first element of
\* "trajectories" when that element exists; otherwise from the first element
\* of the first top-level field, in field order, that is a non-empty array
\* whose first element has a "cameras" attribute; fields that are not
\* arrays, are empty arrays, or whose first element lacks "cameras" are
\* never used, and with no usable field the result is the empty one.
C12_TrajectoryGroupLocation ==
    ReturnedParsed =>
        LET fs == geojsonData.fields
            named == {i \in 1..Len(fs) :
                         fs[i].key = "trajectories" /\ HasFirstElement(fs[i])}
            holders == {i \in 1..Len(fs) :
                           HasFirstElement(fs[i]) /\ fs[i].elems[1].hasCameras}
        IN IF named # {}
           THEN \A i \in named : TakenFrom(fs[i].elems[1])
           ELSE IF holders # {}
           THEN \E i \in holders :
                   /\ \A j \in holders : i <= j
                   /\ TakenFrom(fs[i].elems[1])
           ELSE parsed = EmptyParsed

C12_Witness ==
    /\ ReturnedParsed
    /\ Len(geojsonData.fields) = 2
    /\ geojsonData.fields[1].key = "runs"
    /\ geojsonData.fields[1].elems = <<NoCamerasGroup>>
    /\ geojsonData.fields[2].key = "tracks"
    /\ HasFirstElement(geojsonData.fields[2])
    /\ geojsonData.fields[2].elems[1].hasCameras
    /\ IdsOf(parsed.cameras) = <<"img3">>

(* Specification SpecLoad: readFromDirectory and readFromZip, each called  *)
(* once on the same tree of entries                                        *)

EntryPool ==
    {File(<<"trajectory.geojson">>, "object"),
     File(<<"a.geojson">>, "object"), File(<<"a.geojson">>, "falsy"),
     File(<<"b.geojson">>, "object"), File(<<"b.geojson">>, "invalid"),
     File(<<"objects.geojson">>, "object"),
     File(<<"trajectory.json">>, "object"),
     File(<<"a.json">>, "object"),
     File(<<"images", "x.jpg">>, "blob"),
     File(<<"images", "meta.json">>, "object"),
     Folder(<<"data">>), File(<<"data">>, "object"),
     File(<<"data", "trajectory.geojson">>, "object"),
     File(<<"data", "a.geojson">>, "object"),
     File(<<"data", "sub", "b.geojson">>, "object")}

\* the keys of zip.files are distinct
DistinctKeys(fs) ==
    \A i, j \in 1..Len(fs) :
        (fs[i].path = fs[j].path /\ fs[i].dir = fs[j].dir) => i = j

Trees == {fs \in SeqsUpTo(EntryPool, MaxEntries) : DistinctKeys(fs)}

\* a tree a file system can hold: no file is also a folder
FileSystemTree(fs) ==
    \A i, j \in 1..Len(fs) :
        (i # j /\ ~fs[i].dir) =>
            ~(/\ Len(fs[j].path) >= Len(fs[i].path)
              /\ SubSeq(fs[j].path, 1, Len(fs[i].path)) = fs[i].path)

\* the folders of the tree a user can pick
Pickable(fs) ==
    {<<>>} \cup {<<fs[i].path[1]>> : i \in {j \in 1..Len(fs) :
                                            Len(fs[j].path) >= 2 \/ fs[j].dir}}

InitLoad ==
    /\ files \in Trees
    /\ IF FileSystemTree(files)
       THEN /\ dirRoot \in Pickable(files)
            /\ dirLoad = [state |-> "call", data |-> NoData]
       ELSE /\ dirRoot = <<>>
            /\ dirLoad = [state |-> "idle", data |-> NoData]
    /\ zipLoad = [state |-> "call", prefix |-> <<>>, data |-> NoData]
    /\ ResolverIdle
    /\ UrlsIdle
    /\ fn = "load"
    /\ pc = "call"
    /\ ParserIdle
    /\ GeoIdle
    /\ ConverterIdle
    /\ ControlIdle

ReadFromDirectory ==
    /\ dirLoad.state = "call"
    /\ LET r == readFromDirectory(files, dirRoot)
       IN /\ dirLoad' = [state |-> IF r.threw THEN "throw" ELSE "return",
                         data |-> r.data]
          /\ imageHandles' = r.imageHandles
    /\ blobUrls' = {}
    /\ UNCHANGED <<fn, pc, files, dirRoot, zipLoad, imageBlobUrls, objectUrls,
                   resolves, cleanups, urlVars, parserVars, geoVars, converterVars,
                   controlVars>>

ReadFromZip ==
    /\ zipLoad.state = "call"
    /\ LET r == readFromZip(files)
           issued == Len(objectUrls)
       IN /\ zipLoad' = [state |-> IF r.threw THEN "throw" ELSE "return",
                         prefix |-> r.prefix, data |-> r.data]
          /\ imageBlobUrls' =
                [filename \in {r.images[k] : k \in 1..Len(r.images)} |->
                    issued + (CHOOSE k \in 1..Len(r.images) : r.images[k] = filename)]
          /\ objectUrls' = objectUrls \o [k \in 1..Len(r.images) |-> 0]
    /\ UNCHANGED <<fn, pc, files, dirRoot, dirLoad, imageHandles, blobUrls,
                   resolves, cleanups, urlVars, parserVars, geoVars, converterVars,
                   controlVars>>

NextLoad == ReadFromDirectory \/ ReadFromZip

SpecLoad == InitLoad /\ [][NextLoad]_vars

(* Properties of the file loaders (specification SpecLoad) *)

DirReturned == dirLoad.state = "return"
ZipReturned == zipLoad.state = "return"
UrlsReturned == urlLoad.state = "return"

\* the files directly in the picked folder, in enumeration order
Listing ==
    LET cs == Children(files, dirRoot, Len(files))
    IN SelectSeq(cs, LAMBDA c : c.kind = "file")

\* the parsed content of the first file of the listing among those named in
\* the set; null if there is none
FirstNamed(listing, names) ==
    LET hits == {k \in 1..Len(listing) : listing[k].name \in names}
    IN IF hits = {} THEN Null
       ELSE LET k == CHOOSE i \in hits : \A j \in hits : i <= j
            IN Parse(listing[k].path, listing[k].content)

GeojsonNames(listing) ==
    {listing[k].name : k \in {j \in 1..Len(listing) :
        EndsWith(listing[j].name, ".geojson") /\ listing[j].name # "objects.geojson"}}

JsonNames(listing) ==
    {listing[k].name : k \in {j \in 1..Len(listing) : EndsWith(listing[j].name, ".json")}}

\* the selection by name: the exactly named file if present, else the first
\* enumerated file among the candidates
SelectedByName(listing, exact, candidates) ==
    IF FirstNamed(listing, {exact}) # Null
    THEN FirstNamed(listing, {exact})
    ELSE FirstNamed(listing, candidates)

\* C13: readFromDirectory returns as trajectory geometry the content of
\* trajectory.geojson when the folder has that file, whatever the enumeration
\* order, else of the first enumerated .geojson file other than
\* objects.geojson; as metadata the content of trajectory.json when present,
\* else of the first enumerated .json file; objects.geojson is always
\* returned as the objects and never as the trajectory geometry.
C13_DirectorySelection ==
    DirReturned =>
        /\ dirLoad.data.trajectoryGeojson =
               SelectedByName(Listing, "trajectory.geojson", GeojsonNames(Listing))
        /\ dirLoad.data.trajectoryJson =
               SelectedByName(Listing, "trajectory.json", JsonNames(Listing))
        /\ dirLoad.data.objectsGeojson = FirstNamed(Listing, {"objects.geojson"})
        /\ dirLoad.data.trajectoryGeojson.from # Append(dirRoot, "objects.geojson")

ZipCalled == zipLoad.state # "call"

\* the entry lies in a top-level folder: its path has a '/' after a first segment
HasLeadingFolder(e) == Len(e.path) >= 2 \/ e.dir
\* the entry lies under the top-level folder of that name
LiesUnder(e, name) == HasLeadingFolder(e) /\ e.path[1] = name
\* the entry is a file with the bare name of the folder
IsBareName(e, name) == e.path = <<name>> /\ ~e.dir

\* C14 as stated: the detected prefix is the first entry's leading folder if
\* and only if every entry lies under that folder, and is empty otherwise;
\* whenever the prefix is non-empty every archive entry lies under it.
C14_PrefixIffAllUnder ==
    ZipCalled =>
        LET shared == /\ Len(files) > 0
                      /\ HasLeadingFolder(files[1])
                      /\ \A i \in 1..Len(files) : LiesUnder(files[i], files[1].path[1])
        IN /\ zipLoad.prefix = IF shared THEN <<files[1].path[1]>> ELSE <<>>
           /\ zipLoad.prefix # <<>> =>
                  \A i \in 1..Len(files) : LiesUnder(files[i], zipLoad.prefix[1])

\* C14, amended: the detected prefix is the first entry's leading folder if
\* and only if every entry lies under that folder or is a file with the bare
\* name of the folder, and is empty otherwise; whenever the prefix is
\* non-empty every archive entry lies under it or is such a file.
C14_PrefixDetection ==
    ZipCalled =>
        LET shared == /\ Len(files) > 0
                      /\ HasLeadingFolder(files[1])
                      /\ \A i \in 1..Len(files) :
                            \/ LiesUnder(files[i], files[1].path[1])
                            \/ IsBareName(files[i], files[1].path[1])
        IN /\ zipLoad.prefix = IF shared THEN <<files[1].path[1]>> ELSE <<>>
           /\ zipLoad.prefix # <<>> =>
                  \A i \in 1..Len(files) :
                      \/ LiesUnder(files[i], zipLoad.prefix[1])
                      \/ IsBareName(files[i], zipLoad.prefix[1])

C14_Witness ==
    /\ ZipCalled
    /\ zipLoad.prefix = <<"data">>
    /\ Len(files) = 3
    /\ files[1].path = <<"data", "a.geojson">>
    /\ IsBareName(files[2], "data")
    /\ LiesUnder(files[3], "data")

\* C15: for an archive and a folder holding the same tree of entries in the
\* same order, the folder being the archive's detected prefix, readFromZip
\* and readFromDirectory select the same file as trajectory geometry, the
\* same file as metadata and the same file as objects.
C15_ZipSelectsAsDirectory ==
    (DirReturned /\ ZipReturned /\ dirRoot = zipLoad.prefix) =>
        /\ zipLoad.data.trajectoryGeojson = dirLoad.data.trajectoryGeojson
        /\ zipLoad.data.trajectoryJson = dirLoad.data.trajectoryJson
        /\ zipLoad.data.objectsGeojson = dirLoad.data.objectsGeojson

(* Specification SpecUrls: readFromUrls, and _loadZipFromUrl up to the  *)
(* return of readFromZip                                                *)

\* the archives behind the ZIP URL
Archives ==
    {<<File(<<"trajectory.geojson">>, "object"), File(<<"images", "x.jpg">>, "blob")>>,
     <<File(<<"notes.txt">>, "object")>>}

InitUrls ==
    /\ pc = "call"
    /\ \/ /\ fn = "readFromUrls"
          /\ \E geo \in Responses :
             \E json, objects \in {NoRequest} \cup {Request(TRUE, r) : r \in Responses} :
                requests = [s \in AllSlots |->
                               CASE s = "trajectoryGeojson" -> Request(TRUE, geo)
                                 [] s = "trajectoryJson" -> json
                                 [] s = "objects" -> objects
                                 [] OTHER -> NoRequest]
          /\ urlLoad = [state |-> "call", data |-> NoData]
          /\ imageBasePath \in {"", "base"}
          /\ files = <<>>
       \/ /\ fn = "loadZipFromUrl"
          /\ \E zip \in Responses :
                requests = [s \in AllSlots |->
                               IF s = "zip" THEN Request(TRUE, zip) ELSE NoRequest]
          /\ urlLoad = [state |-> "idle", data |-> NoData]
          /\ imageBasePath = ""
          /\ files \in Archives
    /\ dirRoot = <<>>
    /\ dirLoad = [state |-> "idle", data |-> NoData]
    /\ zipLoad = [state |-> "idle", prefix |-> <<>>, data |-> NoData]
    /\ ResolverIdle
    /\ ParserIdle
    /\ GeoIdle
    /\ ConverterIdle
    /\ ControlIdle

otherVars == <<fn, pc, parserVars, geoVars, converterVars>>
resolverVars == <<imageHandles, blobUrls, imageBlobUrls, objectUrls, resolves, cleanups>>

\* readFromUrls up to its await: the three promises are created
ReadFromUrls ==
    /\ fn = "readFromUrls"
    /\ urlLoad.state = "call"
    /\ requests' = [s \in AllSlots |->
                       IF s \in Slots THEN Issue(requests[s]) ELSE requests[s]]
    /\ urlLoad' = [urlLoad EXCEPT !.state = "await"]
    /\ UNCHANGED <<imageBasePath, files, dirRoot, dirLoad, zipLoad, resolverVars, otherVars, controlVars>>

FetchSettles(s) ==
    /\ requests[s].state = "fetching"
    /\ requests' = [requests EXCEPT ![s] = FetchSettled(requests[s])]
    /\ UNCHANGED <<urlLoad, imageBasePath, files, dirRoot, dirLoad, zipLoad,
                   resolverVars, otherVars, controlVars>>

JsonSettles(s) ==
    /\ requests[s].state = "parsing"
    /\ requests' = [requests EXCEPT ![s] = JsonSettled(requests[s], s)]
    /\ UNCHANGED <<urlLoad, imageBasePath, files, dirRoot, dirLoad, zipLoad,
                   resolverVars, otherVars, controlVars>>

\* the await of Promise.all throws: readFromUrls rejects
PromiseAllRejects ==
    /\ urlLoad.state = "await"
    /\ SomeRejected(requests)
    /\ urlLoad' = [urlLoad EXCEPT !.state = "throw"]
    /\ UNCHANGED <<requests, imageBasePath, files, dirRoot, dirLoad, zipLoad,
                   resolverVars, otherVars, controlVars>>

\* the await of Promise.all returns: readFromUrls returns the LoadedData
PromiseAllFulfils ==
    /\ urlLoad.state = "await"
    /\ ~SomeRejected(requests)
    /\ AllFulfilled(requests)
    /\ urlLoad' = [state |-> "return",
                   data |-> [trajectoryGeojson |-> requests["trajectoryGeojson"].value,
                             trajectoryJson |-> requests["trajectoryJson"].value,
                             objectsGeojson |-> requests["objects"].value]]
    /\ UNCHANGED <<requests, imageBasePath, files, dirRoot, dirLoad, zipLoad,
                   resolverVars, otherVars, controlVars>>

\* _loadZipFromUrl up to its first await
LoadZipFromUrl ==
    /\ fn = "loadZipFromUrl"
    /\ requests["zip"].state = "none"
    /\ requests' = [requests EXCEPT !["zip"] = Issue(requests["zip"])]
    /\ UNCHANGED <<urlLoad, imageBasePath, files, dirRoot, dirLoad, zipLoad,
                   resolverVars, otherVars, controlVars>>

\* _loadZipFromUrl from the response to the call of readFromZip: a network
\* error, a non-OK status or a body that is no archive end in the catch
ZipResponse ==
    /\ requests["zip"].state = "fetching"
    /\ LET r == requests["zip"].response
       IN IF r.network = "error" \/ ~r.ok
          THEN /\ requests' = [requests EXCEPT !["zip"].state = "rejected"]
               /\ UNCHANGED zipLoad
          ELSE /\ requests' = [requests EXCEPT !["zip"].state = "fulfilled"]
               /\ zipLoad' = [zipLoad EXCEPT !.state =
                                 IF r.body = "invalid" THEN "throw" ELSE "call"]
    /\ UNCHANGED <<urlLoad, imageBasePath, files, dirRoot, dirLoad, resolverVars, otherVars, controlVars>>

NextUrls ==
    \/ ReadFromUrls
    \/ \E s \in Slots : FetchSettles(s)
    \/ \E s \in Slots : JsonSettles(s)
    \/ PromiseAllRejects
    \/ PromiseAllFulfils
    \/ LoadZipFromUrl
    \/ ZipResponse
    \/ ReadFromZip

SpecUrls == InitUrls /\ [][NextUrls]_vars

(* Properties of readFromUrls (specification SpecUrls) *)

\* the field of LoadedData a resource is returned in
DataOf(slot) ==
    CASE slot = "trajectoryGeojson" -> urlLoad.data.trajectoryGeojson
      [] slot = "trajectoryJson" -> urlLoad.data.trajectoryJson
      [] slot = "objects" -> urlLoad.data.objectsGeojson

\* the fetch of a resource, or the parse of its body, fails
Fails(r) == r.response.network = "error" \/ r.response.body = "invalid"

\* C19: readFromUrls issues the fetches of all given URLs together, before
\* any of them settles, and returns only after all have settled; an omitted
\* URL yields null for its resource without any fetch; if any issued fetch or
\* its JSON parse fails the load fails and no LoadedData is returned,
\* whatever the order in which the fetches settle.
C19_ConcurrentFetches ==
    fn = "readFromUrls" =>
        /\ \A s \in Slots :
              /\ urlLoad.state = "call" => requests[s].state = "none"
              /\ urlLoad.state # "call" => requests[s].fetched = requests[s].given
              /\ ~requests[s].given => ~requests[s].fetched
        /\ UrlsReturned =>
              \A s \in Slots :
                 /\ requests[s].state = "fulfilled"
                 /\ ~(requests[s].given /\ Fails(requests[s]))
                 /\ DataOf(s) = IF requests[s].given
                                THEN Parse(<<s>>, requests[s].response.body)
                                ELSE Null
        /\ (\E s \in Slots : requests[s].state = "rejected") =>
              urlLoad.state \in {"await", "throw"}
        /\ (urlLoad.state = "await" /\ \E s \in Slots : requests[s].state = "rejected")
              => ENABLED PromiseAllRejects

C19_Witness ==
    /\ UrlsReturned
    /\ ~requests["trajectoryJson"].given
    /\ requests["objects"].fetched
    /\ urlLoad.data.trajectoryJson = Null
    /\ urlLoad.data.objectsGeojson = Parse(<<"objects">>, "object")

\* C20: a load whose source cannot be reached fails and returns no
\* LoadedData: readFromUrls returns none when a request ends in a network
\* failure or a non-OK status, the ZIP-URL load hands no archive to
\* readFromZip in these cases, and readFromZip returns none for an archive
\* without the trajectory geometry file.
C20_UnreachableSourceFails ==
    /\ UrlsReturned =>
          \A s \in Slots :
             requests[s].fetched =>
                (requests[s].response.network = "ok" /\ requests[s].response.ok)
    /\ zipLoad.state # "idle" =>
          (requests["zip"].response.network = "ok" /\ requests["zip"].response.ok)
    /\ ZipReturned => zipLoad.data.trajectoryGeojson # Null

(* Specification SpecResolver: one loader is called, then its resolver and *)
(* its cleanup are called in any order                                     *)

ImageTrees ==
    {<<File(<<"trajectory.geojson">>, "object")>>,
     <<File(<<"images", "x.jpg">>, "blob"), File(<<"images", "z.png">>, "blob")>>,
     <<File(<<"trajectory.geojson">>, "object"), Folder(<<"images">>),
       File(<<"images", "notes.txt">>, "blob"), File(<<"images", "x.jpg">>, "blob")>>,
     <<File(<<"data", "trajectory.geojson">>, "object"),
       File(<<"data", "images", "y.jpeg">>, "blob"),
       File(<<"data", "images", "sub", "x.jpg">>, "blob")>>,
     <<File(<<"images", "x.jpg">>, "blob"), File(<<"a.geojson">>, "object"),
       File(<<"photos", "z.png">>, "blob")>>}

ImageIds == {<<"x.jpg">>, <<"notes.txt">>, <<"sub", "x.jpg">>}

InitResolver ==
    /\ pc = "call"
    /\ fn \in {"readFromDirectory", "readFromZip", "readFromUrls"}
    /\ IF fn = "readFromUrls"
       THEN /\ files = <<>>
            /\ dirRoot = <<>>
            /\ \E geo \in {NetworkError, Response("ok", TRUE, "object")} :
                  requests = [s \in AllSlots |->
                                 IF s = "trajectoryGeojson" THEN Request(TRUE, geo)
                                 ELSE NoRequest]
            /\ urlLoad = [state |-> "call", data |-> NoData]
            /\ imageBasePath \in {"", "base"}
       ELSE /\ files \in ImageTrees
            /\ dirRoot \in IF fn = "readFromDirectory" THEN Pickable(files) ELSE {<<>>}
            /\ UrlsIdle
    /\ dirLoad = [state |-> IF fn = "readFromDirectory" THEN "call" ELSE "idle",
                  data |-> NoData]
    /\ zipLoad = [state |-> IF fn = "readFromZip" THEN "call" ELSE "idle",
                  prefix |-> <<>>, data |-> NoData]
    /\ ResolverIdle
    /\ ParserIdle
    /\ GeoIdle
    /\ ConverterIdle
    /\ ControlIdle

\* the loader has returned its LoadedData, and with it the resolver
Live == DirReturned \/ ZipReturned \/ UrlsReturned

\* imageResolver(imageId), up to its first await or to its return
Resolve(imageId) ==
    /\ Live
    /\ Len(resolves) < MaxResolves
    /\ resolves' = Append(resolves,
          IF fn = "readFromDirectory"
          THEN IF imageId \in imageHandles
               THEN ResolveCall(imageId, "getFile", NullUrl, cleanups)
               ELSE ResolveCall(imageId, "returned", NullUrl, cleanups)
          ELSE IF fn = "readFromZip"
          THEN ResolveCall(imageId, "returned",
                           IF imageId \in DOMAIN imageBlobUrls
                           THEN ObjectUrl(imageBlobUrls[imageId], imageId)
                           ELSE NullUrl,
                           cleanups)
          ELSE ResolveCall(imageId, "returned",
                           IF imageBasePath = "" THEN NullUrl ELSE HttpUrl(imageId),
                           cleanups))
    /\ UNCHANGED <<imageHandles, blobUrls, imageBlobUrls, objectUrls, cleanups,
                   files, dirRoot, dirLoad, zipLoad, urlVars, otherVars, controlVars>>

\* the directory resolver after fileHandle.getFile(): createObjectURL,
\* blobUrls.add, return
GetFileSettles ==
    \E k \in 1..Len(resolves) :
        /\ resolves[k].state = "getFile"
        /\ LET url == Len(objectUrls) + 1
           IN /\ objectUrls' = Append(objectUrls, 0)
              /\ blobUrls' = blobUrls \cup {url}
              /\ resolves' = [resolves EXCEPT
                                 ![k].state = "returned",
                                 ![k].result = ObjectUrl(url, resolves[k].imageId)]
        /\ UNCHANGED <<imageHandles, imageBlobUrls, cleanups, files, dirRoot,
                       dirLoad, zipLoad, urlVars, otherVars, controlVars>>

\* imageResolver.cleanup()
Cleanup ==
    /\ Live
    /\ cleanups < MaxCleanups
    /\ cleanups' = cleanups + 1
    /\ IF fn = "readFromDirectory"
       THEN /\ objectUrls' = Revoke(objectUrls, blobUrls)
            /\ blobUrls' = Cleared(blobUrls, {})
            /\ UNCHANGED imageBlobUrls
       ELSE IF fn = "readFromZip"
       THEN /\ objectUrls' = Revoke(objectUrls, ValuesOf(imageBlobUrls))
            /\ imageBlobUrls' = Cleared(imageBlobUrls, NoUrls)
            /\ UNCHANGED blobUrls
       ELSE UNCHANGED <<objectUrls, blobUrls, imageBlobUrls>>
    /\ UNCHANGED <<imageHandles, resolves, files, dirRoot, dirLoad, zipLoad,
                   urlVars, otherVars, controlVars>>

NextResolver ==
    \/ ReadFromDirectory
    \/ ReadFromZip
    \/ ReadFromUrls
    \/ \E s \in Slots : FetchSettles(s)
    \/ \E s \in Slots : JsonSettles(s)
    \/ PromiseAllRejects
    \/ PromiseAllFulfils
    \/ \E imageId \in ImageIds : Resolve(imageId)
    \/ GetFileSettles
    \/ Cleanup

SpecResolver == InitResolver /\ [][NextResolver]_vars

(* Properties of the image resolvers (specification SpecResolver) *)

\* the entries of the archive that are image files: files under
\* <prefix>images/ whose name ends in .jpg, .jpeg or .png
ImageEntries ==
    {i \in 1..Len(files) :
        /\ ~files[i].dir
        /\ Len(files[i].path) > Len(zipLoad.prefix) + 1
        /\ SubSeq(files[i].path, 1, Len(zipLoad.prefix) + 1)
              = Append(zipLoad.prefix, "images")
        /\ Extension(Last(files[i].path)) \in {".jpg", ".jpeg", ".png"}}

\* the filename of an image entry: its path below <prefix>images/
FilenameOf(i) == SubSeq(files[i].path, Len(zipLoad.prefix) + 2, Len(files[i].path))

\* C16: readFromZip creates at load time exactly one display URL for each
\* non-directory entry under <prefix>images/ whose name ends in .jpg, .jpeg
\* or .png, keyed by the entry's filename; afterwards its resolver creates no
\* further URL and returns the pre-built URL for exactly those filenames and
\* null for any other id; cleanup releases each of these URLs and empties
\* the map.
C16_ZipImageUrls ==
    (fn = "readFromZip" /\ ZipReturned) =>
        /\ Len(objectUrls) = Cardinality(ImageEntries)
        /\ cleanups = 0 =>
              /\ DOMAIN imageBlobUrls = {FilenameOf(i) : i \in ImageEntries}
              /\ \A f, g \in DOMAIN imageBlobUrls :
                    imageBlobUrls[f] = imageBlobUrls[g] => f = g
              /\ \A u \in DOMAIN objectUrls : objectUrls[u] = 0
        /\ \A k \in 1..Len(resolves) :
              /\ resolves[k].state = "returned"
              /\ resolves[k].atCleanups = 0 =>
                    \/ /\ resolves[k].imageId \in {FilenameOf(i) : i \in ImageEntries}
                       /\ resolves[k].result.kind = "blob"
                       /\ resolves[k].result.url \in DOMAIN objectUrls
                       /\ cleanups = 0 =>
                             imageBlobUrls[resolves[k].imageId] = resolves[k].result.url
                    \/ /\ resolves[k].imageId \notin {FilenameOf(i) : i \in ImageEntries}
                       /\ resolves[k].result = NullUrl
        /\ cleanups > 0 =>
              /\ imageBlobUrls = NoUrls
              /\ \A u \in DOMAIN objectUrls : objectUrls[u] >= 1

C16_Witness ==
    /\ fn = "readFromZip"
    /\ ZipReturned
    /\ zipLoad.prefix = <<"data">>
    /\ Len(objectUrls) = 2
    /\ Len(resolves) = 2
    /\ resolves[1].imageId = <<"sub", "x.jpg">>
    /\ resolves[1].result.kind = "blob"
    /\ resolves[2].imageId = <<"notes.txt">>
    /\ resolves[2].result = NullUrl
    /\ cleanups = 1
    /\ resolves[2].atCleanups = 0

\* C17: for readFromDirectory, once cleanup has been called and every
\* resolve call has returned, no URL issued by a resolve call that was made
\* before that cleanup remains unreleased, for every interleaving of the
\* resolve calls, which suspend on the file read, with the cleanup call.
C17_NoUrlLeftAfterCleanup ==
    (fn = "readFromDirectory" /\ cleanups > 0
       /\ \A k \in 1..Len(resolves) : resolves[k].state = "returned") =>
        \A k \in 1..Len(resolves) :
            (resolves[k].atCleanups < cleanups /\ resolves[k].result.kind = "blob") =>
                objectUrls[resolves[k].result.url] >= 1

\* C18: for all three loaders a second call of cleanup raises no error and
\* releases no URL that was already released: cleanup can always be called
\* again, and no URL is ever released twice.
C18_CleanupIdempotent ==
    /\ (Live /\ cleanups < MaxCleanups) => ENABLED Cleanup
    /\ \A u \in DOMAIN objectUrls : objectUrls[u] <= 1

C18_Witness ==
    /\ fn = "readFromDirectory"
    /\ cleanups = 2
    /\ Len(objectUrls) = 2
    /\ \A u \in DOMAIN objectUrls : objectUrls[u] = 1
    /\ \A k \in 1..Len(resolves) : resolves[k].atCleanups = 0

(***************************************************************************)
(* SpecControl: one GeoPhotoControl, put on a map and taken off it, given  *)
(* up to MaxLoads loads through its four loading APIs, and driven through  *)
(* its navigation, autoplay and clearData methods while loads and image    *)
(* resolutions are in flight.                                              *)
(***************************************************************************)

InitControl ==
    /\ fn = "GeoPhotoControl"
    /\ pc = "call"
    /\ ParserIdle
    /\ GeoIdle
    /\ ConverterIdle
    /\ LoaderIdle
    /\ ControlIdle

\* the next load not yet started
Free(l) == loads[l].pc = "idle" /\ \A k \in 1..(l - 1) : loads[k].pc # "idle"

Reading(l) == loads[l].pc \in {"reading", "extracted"}

Handles(s) == Becomes(s) /\ UNCHANGED <<otherVars, loaderVars>>

\* a step of the control that is no settling of a loader
Runs(s) == Handles(s) /\ settled' = NoSettled

\* map.addControl(control): a control is put on a map once, before or
\* after its first load
OnAdd ==
    /\ ~_map
    /\ panel = "none"
    /\ Runs([This EXCEPT !.map = TRUE, !.panel = "filePicker", !.imageEl = NoCamera])
    /\ UNCHANGED loads

OnRemove ==
    /\ _map
    /\ Runs([_revokeBlobs(_cleanupMapLayers(stop(This))) EXCEPT !.map = FALSE])
    /\ UNCHANGED loads

\* openFolder up to await showDirectoryPicker()
OpenFolder ==
    \E l \in Datasets :
        /\ Free(l)
        /\ loads' = [loads EXCEPT ![l] = [loader |-> LoaderOf("openFolder"),
                                          pc |-> "picker"]]
        /\ Runs(This)

\* showDirectoryPicker() settles: a handle, the AbortError of a dismissed
\* picker, or another error
PickerSettles ==
    \E l \in Datasets, outcome \in {"picked", "AbortError", "Error"} :
        /\ loads[l].pc = "picker"
        /\ IF outcome = "picked"
           THEN /\ loads' = [loads EXCEPT ![l].pc = "reading"]
                /\ Runs(_showLoading(This))
           ELSE /\ loads' = [loads EXCEPT ![l].pc = "done"]
                /\ settled' = [load |-> l, picker |-> TRUE,
                               result |-> Settled(TRUE, outcome, FALSE, FALSE, 0)]
                /\ Handles(Caught(This, loads[l].loader, outcome))

\* openZip, loadFromUrls, _loadZipFromUrl up to their first await
StartLoad(api) ==
    \E l \in Datasets :
        /\ Free(l)
        /\ loads' = [loads EXCEPT ![l] = [loader |-> LoaderOf(api), pc |-> "reading"]]
        /\ Runs(_showLoading(This))

OpenZip == StartLoad("openZip")

LoadFromUrls == StartLoad("loadFromUrls")

StartLoadZipFromUrl == StartLoad("loadZipFromUrl")

\* readFromZip's loop over the image entries: createObjectURL per image
ExtractImages ==
    \E l \in Datasets :
        /\ loads[l].pc = "reading"
        /\ loads[l].loader = "readFromZip"
        /\ loads' = [loads EXCEPT ![l].pc = "extracted"]
        /\ Runs([This EXCEPT !.unrevoked[l] = TRUE])

\* the loader settles and the API runs on: _processLoadedData on a
\* LoadedData, the catch block on a rejection or on what _processLoadedData
\* throws
LoaderSettles ==
    \E l \in Datasets :
        /\ Reading(l)
        /\ \E r \in LoaderResults(loads[l].loader) :
              /\ loads' = [loads EXCEPT ![l].pc = "done"]
              /\ settled' = [load |-> l, picker |-> FALSE, result |-> r]
              /\ LET processed == _processLoadedData(This, l, r)
                 IN Handles(IF r.threw THEN Caught(This, loads[l].loader, r.name)
                            ELSE IF processed.threw
                            THEN Caught(processed, loads[l].loader, "Error")
                            ELSE processed)

SelectCamera ==
    \E index \in -1..MaxParsed :
        /\ Runs(selectCamera(This, index))
        /\ UNCHANGED loads

NextCamera == Runs(nextCamera(This)) /\ UNCHANGED loads

PrevCamera == Runs(prevCamera(This)) /\ UNCHANGED loads

FirstCamera == Runs(firstCamera(This)) /\ UNCHANGED loads

LastCamera == Runs(lastCamera(This)) /\ UNCHANGED loads

Play == Runs(play(This)) /\ UNCHANGED loads

Stop == Runs(stop(This)) /\ UNCHANGED loads

\* an active interval timer fires
Tick ==
    /\ intervals > 0
    /\ Runs(tick(This))
    /\ UNCHANGED loads

ClearData == Runs(clearData(This)) /\ UNCHANGED loads

\* _updateViewer after await this._imageResolver(camera.id), for the
\* directory resolver: getFile() settled, createObjectURL on success
ImageResolves ==
    \E p \in pending, fulfilled \in BOOLEAN :
        LET s == [This EXCEPT !.pending = @ \ {p}]
        IN /\ Runs(IF ~fulfilled THEN s
                      ELSE IF s.currentIndex = p.loadIndex
                      THEN [s EXCEPT !.unrevoked[p.resolver] = TRUE,
                                     !.imageEl = Camera(p.resolver, p.loadIndex + 1)]
                      ELSE [s EXCEPT !.unrevoked[p.resolver] = TRUE])
           /\ UNCHANGED loads

NextControl ==
    \/ OnAdd
    \/ OnRemove
    \/ OpenFolder
    \/ PickerSettles
    \/ OpenZip
    \/ LoadFromUrls
    \/ StartLoadZipFromUrl
    \/ ExtractImages
    \/ LoaderSettles
    \/ SelectCamera
    \/ NextCamera
    \/ PrevCamera
    \/ FirstCamera
    \/ LastCamera
    \/ Play
    \/ Stop
    \/ Tick
    \/ ClearData
    \/ ImageResolves

SpecControl == InitControl /\ [][NextControl]_vars

(* Properties of GeoPhotoControl *)

\* the step in which showDirectoryPicker() rejects with the AbortError of a
\* dismissed picker
Dismissed ==
    \E l \in Datasets :
        /\ loads[l].pc = "picker"
        /\ loads'[l].pc = "done"
        /\ settled'.load = l
        /\ settled'.picker
        /\ settled'.result.name = "AbortError"

\* C21: dismissing the directory picker of openFolder is a no-op: nothing is
\* written to the console, no event is emitted, and the cameras, the current
\* index, the image resolver, the map's layers and sources and the panel
\* mode stay as they were.
C21_PickerDismissalNoOp ==
    [][Dismissed =>
          /\ console' = ""
          /\ emitted' = <<>>
          /\ UNCHANGED <<_cameras, _currentIndex, _imageResolver, sources, layers,
                         panel>>]_vars

\* a picker was dismissed on a control that shows a loaded dataset
C21_Witness ==
    /\ settled.picker
    /\ settled.result.name = "AbortError"
    /\ panel = "viewer"
    /\ Len(_cameras) > 0
    /\ layers # {}

\* the LoadedData of load d was handed to _processLoadedData in the last step
Handed(d) == settled.load = d /\ ~settled.picker /\ ~settled.result.threw

\* C22: the cleanup of every LoadedData handed to the control is invoked
\* exactly once by the time the data is discarded or replaced: never more
\* than once, and once for data the control has turned down.
C22_CleanupExactlyOnce ==
    \A d \in Datasets :
        /\ cleaned[d] <= 1
        /\ Handed(d) /\ _imageResolver # d => cleaned[d] = 1

\* the LoadedData whose resolvers hold object URLs not yet revoked
Unreleased == {d \in Datasets : unrevoked[d]}

\* C23: at every moment at most one LoadedData of a control holds
\* unreleased resources: the cleanup of the previous resolver runs before a
\* new load allocates its own.
C23_OneLiveResolver == Cardinality(Unreleased) <= 1

\* C24: the current index is -1 or a valid index into the current camera
\* list, after any sequence of loads, navigation, autoplay ticks and
\* clearData.
C24_IndexValid ==
    _currentIndex = -1 \/ (0 <= _currentIndex /\ _currentIndex < Len(_cameras))

\* C25: every tick of the autoplay timer advances the selection by exactly
\* one camera and leaves playback running, or finds the last camera
\* selected and stops playback there.
C25_TickAdvancesOrStopsAtLast ==
    [][Tick =>
          \/ /\ _currentIndex' = _currentIndex + 1
             /\ _isPlaying'
          \/ /\ _currentIndex = Len(_cameras) - 1
             /\ _currentIndex' = _currentIndex
             /\ ~_isPlaying']_vars

\* the loader of the load that settled in the last step returned trajectory
\* geometry that parses to at least one camera
LoadedCameras ==
    /\ settled.load # 0
    /\ ~settled.result.threw
    /\ settled.result.trajectoryGeojson
    /\ ~settled.result.parseThrows
    /\ settled.result.cameras >= 1

\* C26: a load whose loader returned trajectory geometry that parses to at
\* least one camera emits cameraselect (for index 0) and then dataloaded,
\* once each, and leaves the control with the new cameras and camera 0
\* selected, whether or not a dataset was loaded before; any other load
\* emits neither event.
C26_DataLoadedIffCameras ==
    settled.load # 0 =>
        IF LoadedCameras
        THEN /\ emitted = <<"cameraselect", "dataloaded">>
             /\ _cameras = ParsedCameras(settled.load, settled.result.cameras)
             /\ _currentIndex = 0
        ELSE \A k \in 1..Len(emitted) : emitted[k] \notin {"cameraselect", "dataloaded"}

getCurrentCamera(list, index) ==
    IF index + 1 \in DOMAIN list THEN list[index + 1] ELSE NoCamera

\* C27: clearData leaves no cameras, no current camera, index -1, autoplay
\* stopped with no timer active, the previous resolver cleaned up and
\* dropped, no geophoto layer or source on the map, the panel (when the
\* control has one) in file-picker mode, and emits datacleared exactly once
\* and nothing else; so it does when nothing was loaded.
C27_ClearDataResets ==
    [][ClearData =>
          /\ _cameras' = <<>>
          /\ getCurrentCamera(_cameras', _currentIndex') = NoCamera
          /\ _currentIndex' = -1
          /\ ~_isPlaying'
          /\ intervals' = 0
          /\ _imageResolver # NoResolver =>
                /\ ~unrevoked'[_imageResolver]
                /\ cleaned'[_imageResolver] >= 1
                /\ cleaned'[_imageResolver] >= cleaned[_imageResolver]
          /\ _imageResolver' = NoResolver
          /\ layers' = {}
          /\ sources' = NoSources
          /\ panel' = IF panel = "none" THEN "none" ELSE "filePicker"
          /\ emitted' = <<"datacleared">>]_vars

\* clearData has run on an attached control that had loaded a dataset
C27_Witness ==
    /\ emitted = <<"datacleared">>
    /\ _map
    /\ panel = "filePicker"
    /\ \E d \in Datasets : loads[d].pc = "done" /\ cleaned[d] = 1

\* C28: whenever the viewer's image is set, it is set to the image of the
\* camera currently selected in the currently loaded dataset: a resolution
\* that completes late is not displayed.
C28_ImageOfCurrentCamera ==
    [][_imageEl' # _imageEl =>
          _imageEl' \in {NoCamera, getCurrentCamera(_cameras', _currentIndex')}]_vars

\* C29: on a control attached to a map that holds a non-empty camera list,
\* the camera source on the map was built from that list and the path
\* source from the same parse, also after a second load without clearData.
C29_SourcesOfCurrentCameras ==
    _map /\ _cameras # <<>> /\ sources["geophoto-cameras"] # <<>> =>
        /\ sources["geophoto-cameras"][1] = _cameras
        /\ sources["geophoto-path"] = <<_cameras[1].data>>

\* C30: once the loader of a load has settled, the panel is out of loading
\* mode: in viewer mode when the loader returned trajectory geometry that
\* parses to at least one camera, in file-picker mode after every other
\* outcome, errors included.
C30_LeavesLoadingMode ==
    settled.load # 0 /\ ~settled.picker /\ panel # "none" =>
        panel = IF LoadedCameras THEN "viewer" ELSE "filePicker"

====
